---------------------------- MODULE Spec2Model ----------------------------
(***************************************************************************)
(* The SDWIS loaders (data_ingest.py, ingest_data.py), the header          *)
(* normaliser (utils.py) and the query layer (app.py) as state machines.   *)
(*                                                                         *)
(* Strings the code inspects character by character (file stems, column    *)
(* headers) are spelled as sequences of one-character strings; Spell maps  *)
(* each name used in the model to its spelling.                            *)
(***************************************************************************)
EXTENDS Integers, Sequences, FiniteSets, TLC

VARIABLES
    script,     \* which loader script the operator runs against its database file
    duckdb,     \* what the installed DuckDB does with a zero-byte CSV: "rejects" or "mounts"
    dir,        \* the data/ directory: file stem -> [kind, cols, rows, header]
    tables,     \* the SQLite file: table name -> [exists, cols, pk, rows, ids]
    indexes,    \* the SQLite file: set of [name, table, cols]
    fts,        \* pub_water_systems_fts: [exists, docs], a doc is [rowid, pws_name]
    views,      \* the SQLite file: legacy view name -> canonical table ("" = no such view)
    duck,       \* the in-memory DuckDB views of the running ingest_data.py: set of stems
    pc,         \* position of the running script
    pos,        \* loop index inside the per-file loop
    log,        \* the current run so far: messages logged or printed, tables written
    runs,       \* number of runs started
    edits,      \* number of changes made to data/ between runs
    prev,       \* directory and tables as the previous run left them
    header,     \* a column header under normalisation: [raw, name, passes]
    session_state, \* the app's st.session_state: [selected_system, search_results]
    report,     \* what show_safety_report was given and rendered last
    search      \* what the last rerun of the page handled: [kind, input, client, query_type,
                \* term, raised, messages]

loaderVars == <<script, duckdb, dir, tables, indexes, fts, views, duck, pc, pos, log, runs, edits, prev, header>>

appVars == <<session_state, report, search>>

(***************************************************************************)
(* Bounds of the model.                                                    *)
(***************************************************************************)
MaxRows  == 2    \* rows in the water-systems and violations files together
MaxKey   == 2    \* distinct system ids / violation ids
MaxRuns  == 2    \* runs of the script against one database file
MaxEdits == 1    \* changes to the directory between runs
MaxViolations == 2   \* rows of a recent_violations frame

(***************************************************************************)
(* Spellings.                                                              *)
(***************************************************************************)
Spell ==
  "CONTAMINANT_CODE" :> <<"C", "O", "N", "T", "A", "M", "I", "N", "A", "N", "T", "_", "C", "O", "D", "E">> @@
  "IS_HEALTH_BASED_IND" :> <<"I", "S", "_", "H", "E", "A", "L", "T", "H", "_", "B", "A", "S", "E", "D", "_", "I", "N", "D">> @@
  "NON_COMPL_PER_BEGIN_DATE" :> <<"N", "O", "N", "_", "C", "O", "M", "P", "L", "_", "P", "E", "R", "_", "B", "E", "G", "I", "N", "_", "D", "A", "T", "E">> @@
  "NON_COMPL_PER_END_DATE" :> <<"N", "O", "N", "_", "C", "O", "M", "P", "L", "_", "P", "E", "R", "_", "E", "N", "D", "_", "D", "A", "T", "E">> @@
  "RESULT_SIGN_CODE" :> <<"R", "E", "S", "U", "L", "T", "_", "S", "I", "G", "N", "_", "C", "O", "D", "E">> @@
  "SAMPLING_END_DATE" :> <<"S", "A", "M", "P", "L", "I", "N", "G", "_", "E", "N", "D", "_", "D", "A", "T", "E">> @@
  "UNIT_OF_MEASURE" :> <<"U", "N", "I", "T", "_", "O", "F", "_", "M", "E", "A", "S", "U", "R", "E">> @@
  "VIOLATION_CATEGORY_CODE" :> <<"V", "I", "O", "L", "A", "T", "I", "O", "N", "_", "C", "A", "T", "E", "G", "O", "R", "Y", "_", "C", "O", "D", "E">> @@
  "VIOLATION_STATUS" :> <<"V", "I", "O", "L", "A", "T", "I", "O", "N", "_", "S", "T", "A", "T", "U", "S">> @@
  "contaminant_code" :> <<"c", "o", "n", "t", "a", "m", "i", "n", "a", "n", "t", "_", "c", "o", "d", "e">> @@
  "is_health_based_ind" :> <<"i", "s", "_", "h", "e", "a", "l", "t", "h", "_", "b", "a", "s", "e", "d", "_", "i", "n", "d">> @@
  "non_compl_per_begin_date" :> <<"n", "o", "n", "_", "c", "o", "m", "p", "l", "_", "p", "e", "r", "_", "b", "e", "g", "i", "n", "_", "d", "a", "t", "e">> @@
  "non_compl_per_end_date" :> <<"n", "o", "n", "_", "c", "o", "m", "p", "l", "_", "p", "e", "r", "_", "e", "n", "d", "_", "d", "a", "t", "e">> @@
  "result_sign_code" :> <<"r", "e", "s", "u", "l", "t", "_", "s", "i", "g", "n", "_", "c", "o", "d", "e">> @@
  "sampling_end_date" :> <<"s", "a", "m", "p", "l", "i", "n", "g", "_", "e", "n", "d", "_", "d", "a", "t", "e">> @@
  "unit_of_measure" :> <<"u", "n", "i", "t", "_", "o", "f", "_", "m", "e", "a", "s", "u", "r", "e">> @@
  "violation_category_code" :> <<"v", "i", "o", "l", "a", "t", "i", "o", "n", "_", "c", "a", "t", "e", "g", "o", "r", "y", "_", "c", "o", "d", "e">> @@
  "violation_status" :> <<"v", "i", "o", "l", "a", "t", "i", "o", "n", "_", "s", "t", "a", "t", "u", "s">> @@
  "ANSI_ENTITY_CODE" :> <<"A", "N", "S", "I", "_", "E", "N", "T", "I", "T", "Y", "_", "C", "O", "D", "E">> @@
  "ANSI_STATE_CODE" :> <<"A", "N", "S", "I", "_", "S", "T", "A", "T", "E", "_", "C", "O", "D", "E">> @@
  "ARCHIVE" :> <<"A", "R", "C", "H", "I", "V", "E">> @@
  "Bay" :> <<"B", "a", "y">> @@
  "CITY_NAME" :> <<"C", "I", "T", "Y", "_", "N", "A", "M", "E">> @@
  "COUNTY_SERVED" :> <<"C", "O", "U", "N", "T", "Y", "_", "S", "E", "R", "V", "E", "D">> @@
  "EVENTS_MILESTONES" :> <<"E", "V", "E", "N", "T", "S", "_", "M", "I", "L", "E", "S", "T", "O", "N", "E", "S">> @@
  "EVENT_SCHEDULE_ID" :> <<"E", "V", "E", "N", "T", "_", "S", "C", "H", "E", "D", "U", "L", "E", "_", "I", "D">> @@
  "FACILITIES" :> <<"F", "A", "C", "I", "L", "I", "T", "I", "E", "S">> @@
  "FACILITY_ID" :> <<"F", "A", "C", "I", "L", "I", "T", "Y", "_", "I", "D">> @@
  "FIRST_REPORTED_DATE" :> <<"F", "I", "R", "S", "T", "_", "R", "E", "P", "O", "R", "T", "E", "D", "_", "D", "A", "T", "E">> @@
  "GEOGRAPHIC_AREAS" :> <<"G", "E", "O", "G", "R", "A", "P", "H", "I", "C", "_", "A", "R", "E", "A", "S">> @@
  "GEO_ID" :> <<"G", "E", "O", "_", "I", "D">> @@
  "LCR_Samples" :> <<"L", "C", "R", "_", "S", "a", "m", "p", "l", "e", "s">> @@
  "NOTE" :> <<"N", "O", "T", "E">> @@
  "PHONE_NUMBER" :> <<"P", "H", "O", "N", "E", "_", "N", "U", "M", "B", "E", "R">> @@
  "PN_VIOLATION_ASSOC" :> <<"P", "N", "_", "V", "I", "O", "L", "A", "T", "I", "O", "N", "_", "A", "S", "S", "O", "C">> @@
  "PN_VIOLATION_ID" :> <<"P", "N", "_", "V", "I", "O", "L", "A", "T", "I", "O", "N", "_", "I", "D">> @@
  "POPULATION_SERVED_COUNT" :> <<"P", "O", "P", "U", "L", "A", "T", "I", "O", "N", "_", "S", "E", "R", "V", "E", "D", "_", "C", "O", "U", "N", "T">> @@
  "PRIMARY_SOURCE_CODE" :> <<"P", "R", "I", "M", "A", "R", "Y", "_", "S", "O", "U", "R", "C", "E", "_", "C", "O", "D", "E">> @@
  "PUB_WATER_SYSTEMS" :> <<"P", "U", "B", "_", "W", "A", "T", "E", "R", "_", "S", "Y", "S", "T", "E", "M", "S">> @@
  "PWSID" :> <<"P", "W", "S", "I", "D">> @@
  "PWS_ACTIVITY_CODE" :> <<"P", "W", "S", "_", "A", "C", "T", "I", "V", "I", "T", "Y", "_", "C", "O", "D", "E">> @@
  "PWS_NAME" :> <<"P", "W", "S", "_", "N", "A", "M", "E">> @@
  "PWS Name" :> <<"P", "W", "S", " ", "N", "a", "m", "e">> @@
  "PWS_TYPE_CODE" :> <<"P", "W", "S", "_", "T", "Y", "P", "E", "_", "C", "O", "D", "E">> @@
  "REF_ANSI_AREAS" :> <<"R", "E", "F", "_", "A", "N", "S", "I", "_", "A", "R", "E", "A", "S">> @@
  "REF_CODE_VALUES" :> <<"R", "E", "F", "_", "C", "O", "D", "E", "_", "V", "A", "L", "U", "E", "S">> @@
  "SAMPLE_MEASURE" :> <<"S", "A", "M", "P", "L", "E", "_", "M", "E", "A", "S", "U", "R", "E">> @@
  "SAR_ID" :> <<"S", "A", "R", "_", "I", "D">> @@
  "SDWA_ARCHIVE" :> <<"S", "D", "W", "A", "_", "A", "R", "C", "H", "I", "V", "E">> @@
  "SDWA_EVENTS_MILESTONES" :> <<"S", "D", "W", "A", "_", "E", "V", "E", "N", "T", "S", "_", "M", "I", "L", "E", "S", "T", "O", "N", "E", "S">> @@
  "SDWA_FACILITIES" :> <<"S", "D", "W", "A", "_", "F", "A", "C", "I", "L", "I", "T", "I", "E", "S">> @@
  "SDWA_GEOGRAPHIC_AREAS" :> <<"S", "D", "W", "A", "_", "G", "E", "O", "G", "R", "A", "P", "H", "I", "C", "_", "A", "R", "E", "A", "S">> @@
  "SDWA_LCR_Samples" :> <<"S", "D", "W", "A", "_", "L", "C", "R", "_", "S", "a", "m", "p", "l", "e", "s">> @@
  "SDWA_PN_VIOLATION_ASSOC" :> <<"S", "D", "W", "A", "_", "P", "N", "_", "V", "I", "O", "L", "A", "T", "I", "O", "N", "_", "A", "S", "S", "O", "C">> @@
  "SDWA_PUB_WATER_SYSTEMS" :> <<"S", "D", "W", "A", "_", "P", "U", "B", "_", "W", "A", "T", "E", "R", "_", "S", "Y", "S", "T", "E", "M", "S">> @@
  "SDWA_REF_ANSI_AREAS" :> <<"S", "D", "W", "A", "_", "R", "E", "F", "_", "A", "N", "S", "I", "_", "A", "R", "E", "A", "S">> @@
  "SDWA_REF_CODE_VALUES" :> <<"S", "D", "W", "A", "_", "R", "E", "F", "_", "C", "O", "D", "E", "_", "V", "A", "L", "U", "E", "S">> @@
  "SDWA_SERVICE_AREAS" :> <<"S", "D", "W", "A", "_", "S", "E", "R", "V", "I", "C", "E", "_", "A", "R", "E", "A", "S">> @@
  "SDWA_SITE_VISITS" :> <<"S", "D", "W", "A", "_", "S", "I", "T", "E", "_", "V", "I", "S", "I", "T", "S">> @@
  "SDWA_VIOLATIONS_ENFORCEMENT" :> <<"S", "D", "W", "A", "_", "V", "I", "O", "L", "A", "T", "I", "O", "N", "S", "_", "E", "N", "F", "O", "R", "C", "E", "M", "E", "N", "T">> @@
  "SERVICE_AREAS" :> <<"S", "E", "R", "V", "I", "C", "E", "_", "A", "R", "E", "A", "S">> @@
  "SERVICE_AREA_TYPE_CODE" :> <<"S", "E", "R", "V", "I", "C", "E", "_", "A", "R", "E", "A", "_", "T", "Y", "P", "E", "_", "C", "O", "D", "E">> @@
  "SITE_VISITS" :> <<"S", "I", "T", "E", "_", "V", "I", "S", "I", "T", "S">> @@
  "SUBMISSIONYEARQUARTER" :> <<"S", "U", "B", "M", "I", "S", "S", "I", "O", "N", "Y", "E", "A", "R", "Q", "U", "A", "R", "T", "E", "R">> @@
  "VALUE_CODE" :> <<"V", "A", "L", "U", "E", "_", "C", "O", "D", "E">> @@
  "VALUE_TYPE" :> <<"V", "A", "L", "U", "E", "_", "T", "Y", "P", "E">> @@
  "VIOLATIONS_ENFORCEMENT" :> <<"V", "I", "O", "L", "A", "T", "I", "O", "N", "S", "_", "E", "N", "F", "O", "R", "C", "E", "M", "E", "N", "T">> @@
  "VIOLATION_ID" :> <<"V", "I", "O", "L", "A", "T", "I", "O", "N", "_", "I", "D">> @@
  "VISIT_ID" :> <<"V", "I", "S", "I", "T", "_", "I", "D">> @@
  "ZIP_CODE_SERVED" :> <<"Z", "I", "P", "_", "C", "O", "D", "E", "_", "S", "E", "R", "V", "E", "D">> @@
  "ada" :> <<"a", "d", "a">> @@
  "ansi_entity_code" :> <<"a", "n", "s", "i", "_", "e", "n", "t", "i", "t", "y", "_", "c", "o", "d", "e">> @@
  "ansi_state_code" :> <<"a", "n", "s", "i", "_", "s", "t", "a", "t", "e", "_", "c", "o", "d", "e">> @@
  "archive" :> <<"a", "r", "c", "h", "i", "v", "e">> @@
  "bay" :> <<"b", "a", "y">> @@
  "city_name" :> <<"c", "i", "t", "y", "_", "n", "a", "m", "e">> @@
  "county_served" :> <<"c", "o", "u", "n", "t", "y", "_", "s", "e", "r", "v", "e", "d">> @@
  "event_schedule_id" :> <<"e", "v", "e", "n", "t", "_", "s", "c", "h", "e", "d", "u", "l", "e", "_", "i", "d">> @@
  "events_milestones" :> <<"e", "v", "e", "n", "t", "s", "_", "m", "i", "l", "e", "s", "t", "o", "n", "e", "s">> @@
  "facilities" :> <<"f", "a", "c", "i", "l", "i", "t", "i", "e", "s">> @@
  "facility_id" :> <<"f", "a", "c", "i", "l", "i", "t", "y", "_", "i", "d">> @@
  "first_reported_date" :> <<"f", "i", "r", "s", "t", "_", "r", "e", "p", "o", "r", "t", "e", "d", "_", "d", "a", "t", "e">> @@
  "geo_id" :> <<"g", "e", "o", "_", "i", "d">> @@
  "geographic_areas" :> <<"g", "e", "o", "g", "r", "a", "p", "h", "i", "c", "_", "a", "r", "e", "a", "s">> @@
  "lcr_samples" :> <<"l", "c", "r", "_", "s", "a", "m", "p", "l", "e", "s">> @@
  "note" :> <<"n", "o", "t", "e">> @@
  "phone_number" :> <<"p", "h", "o", "n", "e", "_", "n", "u", "m", "b", "e", "r">> @@
  "pn_violation_assoc" :> <<"p", "n", "_", "v", "i", "o", "l", "a", "t", "i", "o", "n", "_", "a", "s", "s", "o", "c">> @@
  "pn_violation_id" :> <<"p", "n", "_", "v", "i", "o", "l", "a", "t", "i", "o", "n", "_", "i", "d">> @@
  "population_served_count" :> <<"p", "o", "p", "u", "l", "a", "t", "i", "o", "n", "_", "s", "e", "r", "v", "e", "d", "_", "c", "o", "u", "n", "t">> @@
  "primary_source_code" :> <<"p", "r", "i", "m", "a", "r", "y", "_", "s", "o", "u", "r", "c", "e", "_", "c", "o", "d", "e">> @@
  "pub_water_systems" :> <<"p", "u", "b", "_", "w", "a", "t", "e", "r", "_", "s", "y", "s", "t", "e", "m", "s">> @@
  "pws_activity_code" :> <<"p", "w", "s", "_", "a", "c", "t", "i", "v", "i", "t", "y", "_", "c", "o", "d", "e">> @@
  "pws_name" :> <<"p", "w", "s", "_", "n", "a", "m", "e">> @@
  "pws_type_code" :> <<"p", "w", "s", "_", "t", "y", "p", "e", "_", "c", "o", "d", "e">> @@
  "pwsid" :> <<"p", "w", "s", "i", "d">> @@
  "ref_ansi_areas" :> <<"r", "e", "f", "_", "a", "n", "s", "i", "_", "a", "r", "e", "a", "s">> @@
  "ref_code_values" :> <<"r", "e", "f", "_", "c", "o", "d", "e", "_", "v", "a", "l", "u", "e", "s">> @@
  "sample_measure" :> <<"s", "a", "m", "p", "l", "e", "_", "m", "e", "a", "s", "u", "r", "e">> @@
  "sar_id" :> <<"s", "a", "r", "_", "i", "d">> @@
  "sdwa_archive" :> <<"s", "d", "w", "a", "_", "a", "r", "c", "h", "i", "v", "e">> @@
  "sdwa_events_milestones" :> <<"s", "d", "w", "a", "_", "e", "v", "e", "n", "t", "s", "_", "m", "i", "l", "e", "s", "t", "o", "n", "e", "s">> @@
  "sdwa_facilities" :> <<"s", "d", "w", "a", "_", "f", "a", "c", "i", "l", "i", "t", "i", "e", "s">> @@
  "sdwa_geographic_areas" :> <<"s", "d", "w", "a", "_", "g", "e", "o", "g", "r", "a", "p", "h", "i", "c", "_", "a", "r", "e", "a", "s">> @@
  "sdwa_lcr_samples" :> <<"s", "d", "w", "a", "_", "l", "c", "r", "_", "s", "a", "m", "p", "l", "e", "s">> @@
  "sdwa_pn_violation_assoc" :> <<"s", "d", "w", "a", "_", "p", "n", "_", "v", "i", "o", "l", "a", "t", "i", "o", "n", "_", "a", "s", "s", "o", "c">> @@
  "sdwa_pub_water_systems" :> <<"s", "d", "w", "a", "_", "p", "u", "b", "_", "w", "a", "t", "e", "r", "_", "s", "y", "s", "t", "e", "m", "s">> @@
  "sdwa_ref_ansi_areas" :> <<"s", "d", "w", "a", "_", "r", "e", "f", "_", "a", "n", "s", "i", "_", "a", "r", "e", "a", "s">> @@
  "sdwa_ref_code_values" :> <<"s", "d", "w", "a", "_", "r", "e", "f", "_", "c", "o", "d", "e", "_", "v", "a", "l", "u", "e", "s">> @@
  "sdwa_service_areas" :> <<"s", "d", "w", "a", "_", "s", "e", "r", "v", "i", "c", "e", "_", "a", "r", "e", "a", "s">> @@
  "sdwa_site_visits" :> <<"s", "d", "w", "a", "_", "s", "i", "t", "e", "_", "v", "i", "s", "i", "t", "s">> @@
  "sdwa_violations_enforcement" :> <<"s", "d", "w", "a", "_", "v", "i", "o", "l", "a", "t", "i", "o", "n", "s", "_", "e", "n", "f", "o", "r", "c", "e", "m", "e", "n", "t">> @@
  "service_area_type_code" :> <<"s", "e", "r", "v", "i", "c", "e", "_", "a", "r", "e", "a", "_", "t", "y", "p", "e", "_", "c", "o", "d", "e">> @@
  "service_areas" :> <<"s", "e", "r", "v", "i", "c", "e", "_", "a", "r", "e", "a", "s">> @@
  "site_visits" :> <<"s", "i", "t", "e", "_", "v", "i", "s", "i", "t", "s">> @@
  "submissionyearquarter" :> <<"s", "u", "b", "m", "i", "s", "s", "i", "o", "n", "y", "e", "a", "r", "q", "u", "a", "r", "t", "e", "r">> @@
  "value_code" :> <<"v", "a", "l", "u", "e", "_", "c", "o", "d", "e">> @@
  "value_type" :> <<"v", "a", "l", "u", "e", "_", "t", "y", "p", "e">> @@
  "violation_id" :> <<"v", "i", "o", "l", "a", "t", "i", "o", "n", "_", "i", "d">> @@
  "violations_enforcement" :> <<"v", "i", "o", "l", "a", "t", "i", "o", "n", "s", "_", "e", "n", "f", "o", "r", "c", "e", "m", "e", "n", "t">> @@
  "visit_id" :> <<"v", "i", "s", "i", "t", "_", "i", "d">> @@
  "zed" :> <<"z", "e", "d">> @@
  "zip_code_served" :> <<"z", "i", "p", "_", "c", "o", "d", "e", "_", "s", "e", "r", "v", "e", "d">>

(***************************************************************************)
(* String operations on spellings, as Python's str and re perform them.    *)
(***************************************************************************)
LowerOf ==
  "A" :> "a" @@ "B" :> "b" @@ "C" :> "c" @@ "D" :> "d" @@ "E" :> "e" @@ "F" :> "f" @@
  "G" :> "g" @@ "H" :> "h" @@ "I" :> "i" @@ "J" :> "j" @@ "K" :> "k" @@ "L" :> "l" @@
  "M" :> "m" @@ "N" :> "n" @@ "O" :> "o" @@ "P" :> "p" @@ "Q" :> "q" @@ "R" :> "r" @@
  "S" :> "s" @@ "T" :> "t" @@ "U" :> "u" @@ "V" :> "v" @@ "W" :> "w" @@ "X" :> "x" @@
  "Y" :> "y" @@ "Z" :> "z"

Digits == {"0", "1", "2", "3", "4", "5", "6", "7", "8", "9"}

\* the character class [a-z0-9] of SLUG_RE
SlugClass == {LowerOf[c] : c \in DOMAIN LowerOf} \cup Digits

lower(s) == [i \in 1..Len(s) |-> IF s[i] \in DOMAIN LowerOf THEN LowerOf[s[i]] ELSE s[i]]

upper(s) ==
  [i \in 1..Len(s) |->
     IF \E c \in DOMAIN LowerOf : LowerOf[c] = s[i]
       THEN CHOOSE c \in DOMAIN LowerOf : LowerOf[c] = s[i]
       ELSE s[i]]

StartsWith(s, p) == Len(p) <= Len(s) /\ SubSeq(s, 1, Len(p)) = p

EndsWith(s, p) == Len(p) <= Len(s) /\ SubSeq(s, Len(s) - Len(p) + 1, Len(s)) = p

\* Python's `p in s`
Contains(s, p) == \E i \in 1..(Len(s) - Len(p) + 1) : SubSeq(s, i, i + Len(p) - 1) = p

\* str.replace(old, new): every non-overlapping occurrence, left to right
RECURSIVE Replace(_, _, _)
Replace(s, old, new) ==
  IF s = <<>> THEN <<>>
  ELSE IF StartsWith(s, old)
    THEN new \o Replace(SubSeq(s, Len(old) + 1, Len(s)), old, new)
    ELSE <<Head(s)>> \o Replace(Tail(s), old, new)

\* SLUG_RE.sub("_", s): every maximal run of characters outside [a-z0-9] becomes "_"
RECURSIVE SubRuns(_, _)
SubRuns(s, inRun) ==
  IF s = <<>> THEN <<>>
  ELSE IF Head(s) \in SlugClass THEN <<Head(s)>> \o SubRuns(Tail(s), FALSE)
  ELSE IF inRun THEN SubRuns(Tail(s), TRUE)
  ELSE <<"_">> \o SubRuns(Tail(s), TRUE)

\* str.strip(ch)
RECURSIVE LStrip(_, _)
LStrip(s, ch) == IF s # <<>> /\ Head(s) = ch THEN LStrip(Tail(s), ch) ELSE s

RECURSIVE RStrip(_, _)
RStrip(s, ch) ==
  IF s # <<>> /\ s[Len(s)] = ch THEN RStrip(SubSeq(s, 1, Len(s) - 1), ch) ELSE s

strip(s, ch) == RStrip(LStrip(s, ch), ch)

\* a plausible slip: the underscores stripped before the substitution
slug_strip_first(s) == SubRuns(strip(lower(s), "_"), FALSE)

\* a plausible slip: the pattern without its +, every character replaced on its own
slug_each(s) ==
  strip([i \in DOMAIN s |-> IF lower(s)[i] \in SlugClass THEN lower(s)[i] ELSE "_"], "_")

\* utils.slug, and the identical inline fallback of ingest_data.py
slug(s) == strip(SubRuns(lower(s), FALSE), "_")

\* the name whose spelling is chars
Str(chars) == CHOOSE n \in DOMAIN Spell : Spell[n] = chars

\* slug, name to name (evaluated once for the names of the model)
Slugged == [n \in DOMAIN Spell |-> Str(slug(Spell[n]))]

SlugStr(name) == Slugged[name]

UpperStr(name) == Str(upper(Spell[name]))

\* DATE_COL_RE.search: _date$ | _date_ | _dt$ | _dt_ , re.I
DateRegexMatches(c) ==
  \/ EndsWith(lower(c), <<"_", "d", "a", "t", "e">>)
  \/ Contains(lower(c), <<"_", "d", "a", "t", "e", "_">>)
  \/ EndsWith(lower(c), <<"_", "d", "t">>)
  \/ Contains(lower(c), <<"_", "d", "t", "_">>)

RegexDateColumns == {n \in DOMAIN Spell : DateRegexMatches(Spell[n])}

\* DATE_COL_RE.search(col)
DATE_COL_RE(col) == col \in RegexDateColumns

\* clean_dataframe: 'DATE' in col.upper()
HasDate(c) == Contains(upper(c), <<"D", "A", "T", "E">>)

date_columns == {n \in DOMAIN Spell : HasDate(Spell[n])}

IsDateColumn(col) == col \in date_columns

\* clean_dataframe: 'COUNT' in col.upper() or 'MEASURE' in col.upper()
HasCountOrMeasure(c) ==
  \/ Contains(upper(c), <<"C", "O", "U", "N", "T">>)
  \/ Contains(upper(c), <<"M", "E", "A", "S", "U", "R", "E">>)

numeric_columns == {n \in DOMAIN Spell : HasCountOrMeasure(Spell[n])}

IsNumericColumn(col) == col \in numeric_columns

(***************************************************************************)
(* Configuration of the two scripts.                                       *)
(***************************************************************************)
\* a plausible slip: the lead-and-copper table named in the singular
file_mappings_singular ==
  << <<"SDWA_EVENTS_MILESTONES", "events_milestones">>,
     <<"SDWA_FACILITIES", "facilities">>,
     <<"SDWA_GEOGRAPHIC_AREAS", "geographic_areas">>,
     <<"SDWA_LCR_Samples", "lcr_sample">>,
     <<"SDWA_PN_VIOLATION_ASSOC", "pn_violation_assoc">>,
     <<"SDWA_PUB_WATER_SYSTEMS", "pub_water_systems">>,
     <<"SDWA_REF_ANSI_AREAS", "ref_ansi_areas">>,
     <<"SDWA_REF_CODE_VALUES", "ref_code_values">>,
     <<"SDWA_SERVICE_AREAS", "service_areas">>,
     <<"SDWA_SITE_VISITS", "site_visits">>,
     <<"SDWA_VIOLATIONS_ENFORCEMENT", "violations_enforcement">> >>

\* data_ingest.py: file (named here by its stem) and table, in dict order
file_mappings ==
  << <<"SDWA_EVENTS_MILESTONES", "events_milestones">>,
     <<"SDWA_FACILITIES", "facilities">>,
     <<"SDWA_GEOGRAPHIC_AREAS", "geographic_areas">>,
     <<"SDWA_LCR_Samples", "lcr_samples">>,
     <<"SDWA_PN_VIOLATION_ASSOC", "pn_violation_assoc">>,
     <<"SDWA_PUB_WATER_SYSTEMS", "pub_water_systems">>,
     <<"SDWA_REF_ANSI_AREAS", "ref_ansi_areas">>,
     <<"SDWA_REF_CODE_VALUES", "ref_code_values">>,
     <<"SDWA_SERVICE_AREAS", "service_areas">>,
     <<"SDWA_SITE_VISITS", "site_visits">>,
     <<"SDWA_VIOLATIONS_ENFORCEMENT", "violations_enforcement">> >>

\* ingest_data.py: primary key columns per table
KEY_MAP ==
  "events_milestones"      :> <<"submissionyearquarter", "pwsid", "event_schedule_id">> @@
  "facilities"             :> <<"submissionyearquarter", "pwsid", "facility_id">> @@
  "geographic_areas"       :> <<"submissionyearquarter", "pwsid", "geo_id">> @@
  "lcr_samples"            :> <<"submissionyearquarter", "pwsid", "sar_id">> @@
  "pn_violation_assoc"     :> <<"pn_violation_id">> @@
  "pub_water_systems"      :> <<"submissionyearquarter", "pwsid">> @@
  "ref_ansi_areas"         :> <<"ansi_state_code", "ansi_entity_code">> @@
  "ref_code_values"        :> <<"value_type", "value_code">> @@
  "service_areas"          :> <<"submissionyearquarter", "pwsid", "service_area_type_code">> @@
  "site_visits"            :> <<"submissionyearquarter", "pwsid", "visit_id">> @@
  "violations_enforcement" :> <<"violation_id">>

\* KEY_MAP.get(view): None is the empty key
KeyOf(view) == IF view \in DOMAIN KEY_MAP THEN KEY_MAP[view] ELSE <<>>

PwsStem == "SDWA_PUB_WATER_SYSTEMS"
ViolStem == "SDWA_VIOLATIONS_ENFORCEMENT"
ArchiveStem == "SDWA_ARCHIVE"

KnownStems == {file_mappings[i][1] : i \in DOMAIN file_mappings}

\* every file RAW_DIR.glob("SDWA_*.csv") can find in the modelled directories
Stems == KnownStems \cup {ArchiveStem}

\* the view (and table) ingest_data.py derives from a file stem:
\* slug(csv.stem.replace("SDWA_", ""))
ViewName(stem) == Str(slug(Replace(Spell[stem], <<"S", "D", "W", "A", "_">>, <<>>)))

Views == [s \in Stems |-> ViewName(s)]

ViewOf(stem) == Views[stem]

TableNames ==
  {file_mappings[i][2] : i \in DOMAIN file_mappings}
    \cup {ViewOf(s) : s \in Stems} \cup {"county_coordinates"}

SetOf(s) == {s[i] : i \in DOMAIN s}

(***************************************************************************)
(* Cells.  A raw cell is one CSV field; a stored cell is what SQLite holds.*)
(***************************************************************************)
Null == [t |-> "null"]                                  \* empty field / NaN / None / NULL
Num(n) == [t |-> "num", n |-> n]                        \* raw: digits
Text(s) == [t |-> "text", s |-> s]                      \* raw: any other text
Ymd(y, m, d) == [t |-> "ymd", y |-> y, m |-> m, d |-> d] \* raw: text of the form YYYY-MM-DD

Number(n) == [t |-> "number", n |-> n]                  \* stored INTEGER / REAL
String(raw) == [t |-> "str", of |-> raw]                \* stored TEXT, the raw field verbatim
Timestamp(y, m, d) == [t |-> "timestamp", y |-> y, m |-> m, d |-> d]  \* 'YYYY-MM-DD 00:00:00'
IsoDate(y, m, d) == [t |-> "iso", y |-> y, m |-> m, d |-> d]          \* 'YYYY-MM-DD'
NaT == [t |-> "nat"]                                    \* pandas' missing datetime

IsLeap(y) == (y % 4 = 0 /\ y % 100 # 0) \/ y % 400 = 0

DaysIn(y, m) ==
  IF m = 2 THEN (IF IsLeap(y) THEN 29 ELSE 28)
  ELSE IF m \in {4, 6, 9, 11} THEN 30 ELSE 31

ValidDate(y, m, d) == m \in 1..12 /\ d \in 1..DaysIn(y, m)

\* a plausible slip: the calendar is not consulted, any year-month-day text parses
to_datetime_unchecked(cell) ==
  IF cell.t = "ymd" THEN Timestamp(cell.y, cell.m, cell.d) ELSE NaT

\* pd.to_datetime(value, errors="coerce") on a text cell: the parsed instant, or NaT
to_datetime(cell) ==
  IF cell.t = "ymd" /\ ValidDate(cell.y, cell.m, cell.d)
    THEN Timestamp(cell.y, cell.m, cell.d)
    ELSE NaT

\* pd.to_numeric(value, errors="coerce") : the number, or NaN
to_numeric(cell) == IF cell.t = "num" THEN Number(cell.n) ELSE Null

\* s.dt.strftime("%Y-%m-%d").where(s.notna(), None)
strftime(ts) == IF ts.t = "timestamp" THEN IsoDate(ts.y, ts.m, ts.d) ELSE Null

\* type inference of the CSV readers: a column of digits (and blanks) is numeric,
\* any other column is text
ColumnIsNumeric(rows, c) == \A i \in DOMAIN rows : rows[i][c].t \in {"num", "null"}

Inferred(rows, c, cell) ==
  IF cell.t = "null" THEN Null
  ELSE IF ColumnIsNumeric(rows, c) THEN Number(cell.n)
  ELSE String(cell)

\* data_ingest.py clean_dataframe, one cell of column c, then what to_sql stores
clean_dataframe(rows, c, cell) ==
  IF IsDateColumn(c)
    THEN (LET ts == to_datetime(cell) IN IF ts = NaT THEN Null ELSE ts)
  ELSE IF IsNumericColumn(c) THEN to_numeric(cell)
  ELSE Inferred(rows, c, cell)

\* ingest_data.py lines 56-65: the renamed column c (raw header h), one cell
coerce_dates(rows, h, c, cell) ==
  IF DATE_COL_RE(c) THEN strftime(to_datetime(cell)) ELSE Inferred(rows, h, cell)

(***************************************************************************)
(* Files, dataframes and tables.                                           *)
(***************************************************************************)
\* a file: its header line (the column names, left to right) and its rows, each row
\* a value per column name
Absent == [kind |-> "absent", cols |-> {}, rows |-> <<>>, header |-> <<>>]
Blank == [kind |-> "blank", cols |-> {}, rows |-> <<>>, header |-> <<>>]    \* a zero-byte file
CsvIn(names, rows) ==
  [kind |-> "csv", cols |-> {names[i] : i \in DOMAIN names}, rows |-> rows, header |-> names]

\* the columns in one fixed order
RECURSIVE InSomeOrder(_)
InSomeOrder(S) ==
  IF S = {} THEN <<>>
  ELSE LET x == CHOOSE y \in S : TRUE IN <<x>> \o InSomeOrder(S \ {x})

Csv(cols, rows) == CsvIn(InSomeOrder(cols), rows)

\* a table: its columns, its primary key, its rows in rowid order and their rowids
NoTable == [exists |-> FALSE, cols |-> {}, pk |-> <<>>, rows |-> <<>>, ids |-> <<>>]

\* pd.read_csv + clean_dataframe (data_ingest.py lines 55-56)
PandasFrame(content) ==
  [cols |-> content.cols,
   rows |-> [i \in DOMAIN content.rows |->
               [c \in content.cols |-> clean_dataframe(content.rows, c, content.rows[i][c])]]]

\* df.to_sql(table, if_exists='replace', index=False): drop, create, insert every row
to_sql(df) ==
  [exists |-> TRUE, cols |-> df.cols, pk |-> <<>>, rows |-> df.rows,
   ids |-> [i \in DOMAIN df.rows |-> i]]

\* the DuckDB view read back as a dataframe, headers slugged, dates coerced
\* (ingest_data.py lines 55-65), as df.to_dict("records") hands it on (line 69): of
\* the columns that were given one name, each record holds the last
DuckFrame(content) ==
  LET last(c) == CHOOSE i \in DOMAIN content.header :
                    /\ SlugStr(content.header[i]) = c
                    /\ \A j \in DOMAIN content.header : SlugStr(content.header[j]) = c => j <= i
      raw(c) == content.header[last(c)]
  IN [cols |-> {SlugStr(h) : h \in content.cols},
      rows |-> [i \in DOMAIN content.rows |->
                  [c \in {SlugStr(h) : h \in content.cols} |->
                     coerce_dates(content.rows, raw(c), c, content.rows[i][raw(c)])]]]

KeyVal(row, pk) == [i \in DOMAIN pk |-> row[pk[i]]]

\* INSERT OR REPLACE of one record: a row with the same primary key is deleted first
InsertOrReplace(rows, pk, r) ==
  IF pk = <<>> THEN Append(rows, r)
  ELSE Append(SelectSeq(rows, LAMBDA x : KeyVal(x, pk) # KeyVal(r, pk)), r)

RECURSIVE InsertRecords(_, _, _)
InsertRecords(rows, pk, recs) ==
  IF recs = <<>> THEN rows
  ELSE InsertRecords(InsertOrReplace(rows, pk, Head(recs)), pk, Tail(recs))

\* the rowid SQLite gives an inserted row: one more than the largest in the table
NewRowid(ids) == IF ids = <<>> THEN 1 ELSE ids[Len(ids)] + 1

\* the rowids after the same INSERT OR REPLACE statements: a replaced row's rowid goes
\* with it, the record gets a new one
RECURSIVE InsertRowids(_, _, _, _)
InsertRowids(rows, ids, pk, recs) ==
  IF recs = <<>> THEN ids
  ELSE LET kept == SelectSeq([i \in DOMAIN rows |-> i],
                             LAMBDA i : pk = <<>> \/ KeyVal(rows[i], pk) # KeyVal(Head(recs), pk))
       IN InsertRowids(InsertOrReplace(rows, pk, Head(recs)),
                       Append([j \in DOMAIN kept |-> ids[kept[j]]], NewRowid(ids)),
                       pk, Tail(recs))

\* sqlite_utils insert_all(records, pk=pk, alter=True, replace=True): no records, no
\* effect; a missing table is created with the declared key; new columns are added
insert_all(tbl, df, pk) ==
  IF df.rows = <<>> THEN tbl
  ELSE LET key == IF tbl.exists THEN tbl.pk ELSE pk
       IN [exists |-> TRUE,
           cols |-> tbl.cols \cup df.cols,
           pk |-> key,
           rows |-> InsertRecords(tbl.rows, key, df.rows),
           ids |-> InsertRowids(tbl.rows, tbl.ids, key, df.rows)]

\* sqlite_utils' default index name
IndexName(table, cols) == <<"idx", table, cols>>

(***************************************************************************)
(* The directories the model draws.  The water-systems file, the violations*)
(* file and one file outside KEY_MAP vary freely; the other nine known     *)
(* files are all present with one row each, or all missing.                *)
(***************************************************************************)
SystemNames == {"ada", "bay"}

SeqsUpTo(S, n) == UNION {[1..k -> S] : k \in 0..n}

PwsCols == {"SUBMISSIONYEARQUARTER", "PWSID", "PWS_NAME"}

PwsRows ==
  {[c \in PwsCols |->
      IF c = "PWSID" THEN Num(k) ELSE IF c = "PWS_NAME" THEN Text(n) ELSE Text("2025Q1")]
     : k \in 1..MaxKey, n \in SystemNames}

ViolCols == {"VIOLATION_ID", "PWSID"}

ViolRows ==
  {[c \in ViolCols |-> IF c = "VIOLATION_ID" THEN Num(k) ELSE Num(s)]
     : k \in 1..MaxKey, s \in 1..MaxKey}

ArchiveCols == {"NOTE"}

ArchiveRows == {[c \in ArchiveCols |-> Text("x")]}

GenericCols(stem) == {UpperStr(c) : c \in SetOf(KEY_MAP[ViewOf(stem)])}

GenericContent(stem) ==
  Csv(GenericCols(stem),
      << [c \in GenericCols(stem) |->
            IF c = "SUBMISSIONYEARQUARTER" THEN Text("2025Q1") ELSE Num(1)] >>)

FreeStems == {PwsStem, ViolStem, ArchiveStem}

Contents ==
  [stem \in FreeStems |->
     IF stem = PwsStem
       THEN {Absent, Blank} \cup {Csv(PwsCols, r) : r \in SeqsUpTo(PwsRows, MaxRows)}
     ELSE IF stem = ViolStem
       THEN {Absent, Blank} \cup {Csv(ViolCols, r) : r \in SeqsUpTo(ViolRows, MaxRows)}
     ELSE {Absent} \cup {Csv(ArchiveCols, r) : r \in SeqsUpTo(ArchiveRows, 1)}]

FreeContents(stem) == Contents[stem]

WithinBudget(d) == Len(d[PwsStem].rows) + Len(d[ViolStem].rows) <= MaxRows

DirOf(p, v, a, others) ==
  [s \in Stems |->
     IF s = PwsStem THEN p
     ELSE IF s = ViolStem THEN v
     ELSE IF s = ArchiveStem THEN a
     ELSE IF others THEN GenericContent(s) ELSE Absent]

(***************************************************************************)
(* DuckDB's SHOW TABLES lists the views ordered by name.                   *)
(***************************************************************************)
Alphabet ==
  <<"_", "a", "b", "c", "d", "e", "f", "g", "h", "i", "j", "k", "l", "m",
    "n", "o", "p", "q", "r", "s", "t", "u", "v", "w", "x", "y", "z">>

Rank(ch) == CHOOSE i \in DOMAIN Alphabet : Alphabet[i] = ch

RECURSIVE Before(_, _)
Before(a, b) ==
  IF a = <<>> THEN b # <<>>
  ELSE IF b = <<>> THEN FALSE
  ELSE IF Head(a) = Head(b) THEN Before(Tail(a), Tail(b))
  ELSE Rank(Head(a)) < Rank(Head(b))

RECURSIVE Sorted(_)
Sorted(S) ==
  IF S = {} THEN <<>>
  ELSE LET m == CHOOSE x \in S : \A y \in S \ {x} : Before(Spell[x], Spell[y])
       IN <<m>> \o Sorted(S \ {m})

SortedViews == Sorted({ViewOf(s) : s \in Stems})

Mounted == [v \in {ViewOf(s) : s \in Stems} |-> CHOOSE s \in Stems : ViewOf(s) = v]

StemOf(view) == Mounted[view]

\* duck.execute("SHOW TABLES").fetchall()
ShowTables(mounted) == SelectSeq(SortedViews, LAMBDA v : StemOf(v) \in mounted)

(***************************************************************************)
(* Initial state: a new, empty database file and some data/ directory.     *)
(***************************************************************************)
Scripts == {"data_ingest.py", "ingest_data.py"}

LegacyViews == {"water_systems", "violations"}

Running == pc \notin {"idle", "done", "aborted"}

\* a database file that does not exist yet, and no run so far
NewDatabase ==
  /\ tables = [t \in TableNames |-> NoTable]
  /\ indexes = {}
  /\ fts = [exists |-> FALSE, docs |-> <<>>]
  /\ views = [v \in LegacyViews |-> ""]
  /\ duck = {}
  /\ pc = "idle"
  /\ pos = 0
  /\ log = {}
  /\ runs = 0
  /\ edits = 0
  /\ prev = [tables |-> [t \in TableNames |-> NoTable], same |-> FALSE, dirty |-> FALSE]

\* no header is being normalised
NoHeader == [raw |-> <<>>, name |-> <<>>, passes |-> 0]

None == [t |-> "none"]

\* pd.DataFrame()
EmptyFrame == [cols |-> {}, rows |-> <<>>]

\* a rerun of the page that handled no search
NoSearch ==
  [kind |-> "none", input |-> "", client |-> FALSE, query_type |-> "", term |-> "",
   raised |-> FALSE, messages |-> {}]

\* a rerun that handled a search (line 524): whether azure_client_low is configured, the
\* query_type the classifier returned ("" when it was not reached), the location term it
\* returned with it ("" when it named none), whether the try block raised, and the
\* st.info / st.error messages shown
Handled(search_input, client, query_type, term, raised, messages) ==
  [kind |-> "search", input |-> search_input, client |-> client, query_type |-> query_type,
   term |-> term, raised |-> raised, messages |-> messages]

\* the app has not been opened: show_system_search lines 489-492 set these defaults
\* the three frames of get_system_safety_data, and whether a query of it failed
NoData == [basic_info |-> <<>>, recent_violations |-> <<>>, test_results |-> <<>>, failed |-> FALSE]

\* no report rendered.  Of a rendered one: status "not_found", "raised" (an exception
\* left show_safety_report) or "shown"; the safety data, whether a client is configured
\* and the reply of its chat completion; the summary text (empty: none), the level it
\* is displayed at, the level of the safety status, and the st.error / st.warning messages
NoReport ==
  [status |-> "none", safety_data |-> NoData, client |-> FALSE,
   reply |-> [t |-> "none", content |-> <<>>],
   summary |-> <<>>, summary_level |-> "", safety_status |-> "", messages |-> {}]

NewSession ==
  /\ session_state = [selected_system |-> None, search_results |-> EmptyFrame]
  /\ report = NoReport
  /\ search = NoSearch

Init ==
  /\ script \in Scripts
  /\ duckdb \in (IF script = "ingest_data.py" THEN {"rejects", "mounts"} ELSE {"mounts"})
  /\ \E p \in FreeContents(PwsStem), v \in FreeContents(ViolStem),
        a \in FreeContents(ArchiveStem), others \in BOOLEAN :
       /\ WithinBudget(DirOf(p, v, a, others))
       /\ dir = DirOf(p, v, a, others)
  /\ NewDatabase
  /\ header = NoHeader
  /\ NewSession

(***************************************************************************)
(* The operator: edits data/ between runs, starts a run.                   *)
(***************************************************************************)
EditFile(f, c) ==
  /\ ~Running
  /\ runs >= 1 /\ runs < MaxRuns
  /\ edits < MaxEdits
  /\ c # dir[f]
  /\ WithinBudget([dir EXCEPT ![f] = c])
  /\ dir' = [dir EXCEPT ![f] = c]
  /\ edits' = edits + 1
  /\ prev' = [prev EXCEPT !.dirty = TRUE]
  /\ UNCHANGED <<session_state, report, search, header, script, duckdb, tables, indexes, fts, views, duck, pc, pos, log, runs>>

\* python data_ingest.py / python ingest_data.py
StartRun ==
  /\ ~Running
  /\ runs < MaxRuns
  /\ runs' = runs + 1
  /\ log' = {}
  /\ prev' = [tables |-> tables, same |-> (runs > 0 /\ ~prev.dirty), dirty |-> FALSE]
  /\ duck' = {}
  /\ pos' = 1
  /\ pc' = IF script = "data_ingest.py" THEN "ingest" ELSE "mount"
  /\ UNCHANGED <<session_state, report, search, header, script, duckdb, dir, tables, indexes, fts, views, edits>>

(***************************************************************************)
(* data_ingest.py                                                          *)
(***************************************************************************)
AfterFile == IF pos = Len(file_mappings) THEN "indexes" ELSE "ingest"

\* ingest_data, one iteration: the file is not there (lines 52, 64-65)
IngestMissing ==
  /\ pc = "ingest"
  /\ dir[file_mappings[pos][1]].kind = "absent"
  /\ log' = log \cup {<<"warning", file_mappings[pos][1]>>}
  /\ pos' = pos + 1
  /\ pc' = AfterFile
  /\ UNCHANGED <<session_state, report, search, header, script, duckdb, dir, tables, indexes, fts, views, duck, runs, edits, prev>>

\* ingest_data, one iteration: pd.read_csv raises EmptyDataError (lines 55, 62-63)
IngestError ==
  /\ pc = "ingest"
  /\ dir[file_mappings[pos][1]].kind = "blank"
  /\ log' = log \cup {<<"error", file_mappings[pos][1]>>}
  /\ pos' = pos + 1
  /\ pc' = AfterFile
  /\ UNCHANGED <<session_state, report, search, header, script, duckdb, dir, tables, indexes, fts, views, duck, runs, edits, prev>>

\* ingest_data, one iteration: read, clean, replace the table (lines 53-60);
\* dropping the table drops its indexes
IngestFile ==
  /\ pc = "ingest"
  /\ dir[file_mappings[pos][1]].kind = "csv"
  /\ tables' = [tables EXCEPT ![file_mappings[pos][2]] =
                  to_sql(PandasFrame(dir[file_mappings[pos][1]]))]
  /\ indexes' = {i \in indexes : i.table # file_mappings[pos][2]}
  /\ log' = log \cup {<<"written", file_mappings[pos][2]>>, <<"loaded", file_mappings[pos][2]>>}
  /\ pos' = pos + 1
  /\ pc' = AfterFile
  /\ UNCHANGED <<session_state, report, search, header, script, duckdb, dir, fts, views, duck, runs, edits, prev>>

\* the CREATE INDEX IF NOT EXISTS statements of create_indexes, in order
index_statements ==
  << [name |-> <<"idx_pws_pwsid">>, table |-> "pub_water_systems", cols |-> <<"PWSID">>],
     [name |-> <<"idx_violations_pwsid">>, table |-> "violations_enforcement", cols |-> <<"PWSID">>],
     [name |-> <<"idx_facilities_pwsid">>, table |-> "facilities", cols |-> <<"PWSID">>],
     [name |-> <<"idx_geographic_pwsid">>, table |-> "geographic_areas", cols |-> <<"PWSID">>],
     [name |-> <<"idx_violations_date">>, table |-> "violations_enforcement",
      cols |-> <<"NON_COMPL_PER_BEGIN_DATE">>],
     [name |-> <<"idx_pws_type">>, table |-> "pub_water_systems", cols |-> <<"PWS_TYPE_CODE">>],
     [name |-> <<"idx_pws_population">>, table |-> "pub_water_systems",
      cols |-> <<"POPULATION_SERVED_COUNT">>] >>

\* SQLite accepts the statement when the table and the columns exist
Indexable(tbls, ix) == tbls[ix.table].exists /\ SetOf(ix.cols) \subseteq tbls[ix.table].cols

\* create_indexes (lines 67-86): every statement in its own try/except
CreateIndexes ==
  /\ pc = "indexes"
  /\ indexes' = indexes \cup
       {index_statements[i] : i \in {j \in DOMAIN index_statements :
                                        Indexable(tables, index_statements[j])}}
  /\ log' = log \cup
       {<<(IF Indexable(tables, index_statements[i]) THEN "index" ELSE "index_error"),
          index_statements[i].name>> : i \in DOMAIN index_statements}
  /\ pc' = "geo"
  /\ UNCHANGED <<session_state, report, search, header, script, duckdb, dir, tables, fts, views, duck, pos, runs, edits, prev>>

\* county_coords, coordinates in units of 0.0001 degree
county_coords ==
  << [county_name |-> "FULTON", latitude |-> 337490, longitude |-> -843880],
     [county_name |-> "DEKALB", latitude |-> 337673, longitude |-> -842806],
     [county_name |-> "GWINNETT", latitude |-> 339526, longitude |-> -840807],
     [county_name |-> "COBB", latitude |-> 338839, longitude |-> -845144] >>

\* add_geographic_data (lines 88-108)
AddGeographicData ==
  /\ pc = "geo"
  /\ tables' = [tables EXCEPT !["county_coordinates"] =
                  [exists |-> TRUE,
                   cols |-> {"county_name", "latitude", "longitude"},
                   pk |-> <<>>,
                   rows |-> county_coords,
                   ids |-> [i \in DOMAIN county_coords |-> i]]]
  /\ indexes' = {i \in indexes : i.table # "county_coordinates"}
  /\ log' = log \cup {<<"info", "county_coordinates">>}
  /\ pc' = "close"
  /\ UNCHANGED <<session_state, report, search, header, script, duckdb, dir, fts, views, duck, pos, runs, edits, prev>>

\* close (lines 110-111) and exit
Close ==
  /\ pc = "close"
  /\ pc' = "done"
  /\ UNCHANGED <<session_state, report, search, header, script, duckdb, dir, tables, indexes, fts, views, duck, pos, log, runs, edits, prev>>

(***************************************************************************)
(* ingest_data.py                                                          *)
(***************************************************************************)
Globbed == {s \in Stems : dir[s].kind # "absent"}

\* section 2 (lines 41-47): a view per globbed file.  read_csv_auto either rejects
\* a zero-byte file, which ends the script, or mounts it as a view without rows.
MountRejects ==
  /\ pc = "mount"
  /\ duckdb = "rejects"
  /\ \E s \in Globbed : dir[s].kind = "blank"
  /\ pc' = "aborted"
  /\ UNCHANGED <<session_state, report, search, header, script, duckdb, dir, tables, indexes, fts, views, duck, pos, log, runs, edits, prev>>

MountViews ==
  /\ pc = "mount"
  /\ duckdb = "mounts" \/ \A s \in Globbed : dir[s].kind # "blank"
  /\ duck' = Globbed
  /\ pos' = 1
  /\ pc' = IF Globbed = {} THEN "fts" ELSE "copy"
  /\ UNCHANGED <<session_state, report, search, header, script, duckdb, dir, tables, indexes, fts, views, log, runs, edits, prev>>

CopyView == ShowTables(duck)[pos]

CopyKey == KeyOf(CopyView)

\* a plausible slip: rows are kept only when their system id is in pub_water_systems
CopiedEnforcingForeignKey ==
  LET df == DuckFrame(dir[StemOf(CopyView)])
      known == {tables["pub_water_systems"].rows[i]["pwsid"] :
                  i \in DOMAIN tables["pub_water_systems"].rows}
      kept == IF CopyView = "pub_water_systems" \/ "pwsid" \notin df.cols THEN df.rows
              ELSE SelectSeq(df.rows, LAMBDA r : r["pwsid"] \in known)
  IN insert_all(tables[CopyView], [cols |-> df.cols, rows |-> kept], CopyKey)

Copied == insert_all(tables[CopyView], DuckFrame(dir[StemOf(CopyView)]), CopyKey)

\* Table.create_index(columns) with its defaults raises when the table is missing
\* and when an index of the default name exists
IndexRaises(tbl, name) == ~tbl.exists \/ \E i \in indexes : i.name = name

\* insert_all writes when the view has rows
CopyWrites == IF DuckFrame(dir[StemOf(CopyView)]).rows = <<>> THEN {} ELSE {<<"written", CopyView>>}

AfterCopy == IF pos = Len(ShowTables(duck)) THEN "fts" ELSE "copy"

\* section 3, one iteration (lines 54-78): insert_all, then create_index for a keyed view
CopyTable ==
  /\ pc = "copy"
  /\ CopyKey = <<>> \/ ~IndexRaises(Copied, IndexName(CopyView, CopyKey))
  /\ tables' = [tables EXCEPT ![CopyView] = Copied]
  /\ indexes' = IF CopyKey = <<>> THEN indexes
                ELSE indexes \cup {[name |-> IndexName(CopyView, CopyKey),
                                    table |-> CopyView, cols |-> CopyKey]}
  /\ log' = log \cup CopyWrites \cup {<<"loaded", CopyView>>}
               \cup (IF CopyKey = <<>> THEN {} ELSE {<<"index", IndexName(CopyView, CopyKey)>>})
  /\ pos' = pos + 1
  /\ pc' = AfterCopy
  /\ UNCHANGED <<session_state, report, search, header, script, duckdb, dir, fts, views, duck, runs, edits, prev>>

\* section 3, one iteration: the rows are inserted, create_index raises, the script ends
CopyIndexRaises ==
  /\ pc = "copy"
  /\ CopyKey # <<>>
  /\ IndexRaises(Copied, IndexName(CopyView, CopyKey))
  /\ tables' = [tables EXCEPT ![CopyView] = Copied]
  /\ log' = log \cup CopyWrites
  /\ pc' = "aborted"
  /\ UNCHANGED <<session_state, report, search, header, script, duckdb, dir, indexes, fts, views, duck, pos, runs, edits, prev>>

\* what populate_fts indexes: the pws_name of every row, under the row's rowid
FtsDocs(tbl) ==
  [i \in DOMAIN tbl.rows |-> [rowid |-> tbl.ids[i], pws_name |-> tbl.rows[i]["pws_name"]]]

FtsRaises == ~tables["pub_water_systems"].exists \/ "pws_name" \notin tables["pub_water_systems"].cols

\* section 4 (line 83): enable_fts(["pws_name"], replace=True).  An FTS table of the
\* same definition is kept as it is; otherwise it is created and populated.
EnableFts ==
  /\ pc = "fts"
  /\ ~FtsRaises
  /\ fts' = IF fts.exists THEN fts
            ELSE [exists |-> TRUE, docs |-> FtsDocs(tables["pub_water_systems"])]
  /\ pc' = "views"
  /\ UNCHANGED <<session_state, report, search, header, script, duckdb, dir, tables, indexes, views, duck, pos, log, runs, edits, prev>>

\* section 4 (line 83): no pub_water_systems table to index; the script ends
EnableFtsRaises ==
  /\ pc = "fts"
  /\ FtsRaises
  /\ pc' = "aborted"
  /\ UNCHANGED <<session_state, report, search, header, script, duckdb, dir, tables, indexes, fts, views, duck, pos, log, runs, edits, prev>>

\* a plausible slip: the two SELECTs exchanged
compat_views_swapped ==
  [v \in LegacyViews |->
     IF v = "water_systems" THEN "violations_enforcement" ELSE "pub_water_systems"]

\* CREATE VIEW water_systems AS SELECT * FROM pub_water_systems;
\* CREATE VIEW violations AS SELECT * FROM violations_enforcement;
compat_views ==
  [v \in LegacyViews |->
     IF v = "water_systems" THEN "pub_water_systems" ELSE "violations_enforcement"]

\* section 4 (lines 85-90): drop and create the two compatibility views
CreateViews ==
  /\ pc = "views"
  /\ views' = compat_views
  /\ log' = log \cup {<<"info", "rebuilt">>}
  /\ pc' = "done"
  /\ UNCHANGED <<session_state, report, search, header, script, duckdb, dir, tables, indexes, fts, duck, pos, runs, edits, prev>>

(***************************************************************************)
(* The loaders' specification.                                             *)
(***************************************************************************)
PandasNext ==
  \/ IngestMissing
  \/ IngestError
  \/ IngestFile
  \/ CreateIndexes
  \/ AddGeographicData
  \/ Close

RunNext ==
  \/ StartRun
  \/ PandasNext
  \/ MountRejects
  \/ MountViews
  \/ CopyTable
  \/ CopyIndexRaises
  \/ EnableFts
  \/ EnableFtsRaises
  \/ CreateViews

Next ==
  \/ \E f \in FreeStems : \E c \in FreeContents(f) : EditFile(f, c)
  \/ RunNext

vars == <<loaderVars, appVars>>

Spec == Init /\ [][Next]_vars

(***************************************************************************)
(* The loaders over water-systems files that carry a count column and a    *)
(* date column: digits, other text and blanks in the count column; real    *)
(* dates, impossible dates, other text and blanks in the date column.      *)
(***************************************************************************)
MaxCoerceRows == 2

CountCells == {Null, Num(12), Text("abc")}

DateCells ==
  {Null, Text("unknown"), Ymd(2023, 2, 29), Ymd(2024, 2, 29), Ymd(2024, 4, 31), Ymd(2024, 13, 1)}

\* a row varies in its count or in its date
CoerceCells ==
  {<<n, Ymd(2024, 2, 29)>> : n \in CountCells} \cup {<<Num(12), d>> : d \in DateCells}

CoerceCols == PwsCols \cup {"POPULATION_SERVED_COUNT", "FIRST_REPORTED_DATE"}

CoerceRow(k, cells) ==
  [c \in CoerceCols |->
     IF c = "PWSID" THEN Num(k)
     ELSE IF c = "PWS_NAME" THEN Text("ada")
     ELSE IF c = "POPULATION_SERVED_COUNT" THEN cells[1]
     ELSE IF c = "FIRST_REPORTED_DATE" THEN cells[2]
     ELSE Text("2025Q1")]

CoerceContents ==
  {Absent, Blank}
    \cup UNION {{Csv(CoerceCols, [i \in 1..k |-> CoerceRow(i, x[i])]) : x \in [1..k -> CoerceCells]}
                : k \in 0..MaxCoerceRows}

InitCoerce ==
  /\ script \in Scripts
  /\ duckdb \in (IF script = "ingest_data.py" THEN {"rejects", "mounts"} ELSE {"mounts"})
  /\ \E p \in CoerceContents, others \in BOOLEAN : dir = DirOf(p, Absent, Absent, others)
  /\ NewDatabase
  /\ header = NoHeader
  /\ NewSession

SpecCoerce == InitCoerce /\ [][RunNext]_vars


(***************************************************************************)
(* app.py: the query layer over the database data_ingest.py writes.        *)
(***************************************************************************)
\* SELECT list of find_water_systems
SearchColumns ==
  {"PWSID", "PWS_NAME", "PWS_TYPE_CODE", "POPULATION_SERVED_COUNT", "CITY_NAME",
   "COUNTY_SERVED", "ZIP_CODE_SERVED"}

\* the columns find_water_systems names in pub_water_systems (p) and geographic_areas (g)
PwsSearchColumns ==
  {"PWSID", "PWS_NAME", "PWS_TYPE_CODE", "POPULATION_SERVED_COUNT", "CITY_NAME",
   "PWS_ACTIVITY_CODE"}

GeoSearchColumns == {"PWSID", "COUNTY_SERVED", "ZIP_CODE_SERVED"}

\* the columns the basic_info query of get_system_safety_data names
BasicInfoColumns ==
  {"PWS_NAME", "PWS_TYPE_CODE", "POPULATION_SERVED_COUNT", "PRIMARY_SOURCE_CODE",
   "CITY_NAME", "PHONE_NUMBER", "PWSID"}

\* UPPER(x) LIKE UPPER('%term%'), term alphabetic: NULL and numbers never match
Like(cell, term) ==
  /\ cell.t = "str"
  /\ cell.of.t = "text"
  /\ Contains(upper(Spell[cell.of.s]), upper(Spell[term]))

\* p LEFT JOIN g ON p.PWSID = g.PWSID, for one row of p
JoinRow(prow, grows) ==
  LET on == SelectSeq(grows, LAMBDA g : prow["PWSID"] # Null /\ g["PWSID"] = prow["PWSID"])
      both(g) == [c \in PwsSearchColumns \cup GeoSearchColumns |->
                    IF c \in PwsSearchColumns THEN prow[c] ELSE g[c]]
  IN IF on = <<>> THEN << both([c \in GeoSearchColumns |-> Null]) >>
     ELSE [k \in DOMAIN on |-> both(on[k])]

RECURSIVE LeftJoin(_, _)
LeftJoin(prows, grows) ==
  IF prows = <<>> THEN <<>>
  ELSE JoinRow(Head(prows), grows) \o LeftJoin(Tail(prows), grows)

\* SELECT DISTINCT
RECURSIVE Distinct(_)
Distinct(rows) ==
  IF rows = <<>> THEN <<>>
  ELSE LET rest == Distinct(SubSeq(rows, 1, Len(rows) - 1))
           r == rows[Len(rows)]
       IN IF \E i \in DOMAIN rest : rest[i] = r THEN rest ELSE Append(rest, r)

\* ORDER BY POPULATION_SERVED_COUNT DESC: a goes before b (NULL sorts last)
Above(a, b) ==
  /\ a["POPULATION_SERVED_COUNT"].t = "number"
  /\ \/ b["POPULATION_SERVED_COUNT"].t # "number"
     \/ a["POPULATION_SERVED_COUNT"].n > b["POPULATION_SERVED_COUNT"].n

RECURSIVE OrderByPopulation(_)
OrderByPopulation(rows) ==
  IF rows = <<>> THEN <<>>
  ELSE LET rest == OrderByPopulation(Tail(rows))
           r == Head(rows)
           k == Cardinality({i \in DOMAIN rest : Above(rest[i], r)})
       IN SubSeq(rest, 1, k) \o <<r>> \o SubSeq(rest, k + 1, Len(rest))

\* find_water_systems (lines 321-336) through execute_query (lines 36-43): a database
\* error is reported and gives an empty DataFrame
find_water_systems(search_term) ==
  LET p == tables["pub_water_systems"]
      g == tables["geographic_areas"]
  IN IF ~(p.exists /\ g.exists /\ PwsSearchColumns \subseteq p.cols
            /\ GeoSearchColumns \subseteq g.cols)
       THEN EmptyFrame
       ELSE LET hits ==
                  SelectSeq(LeftJoin(p.rows, g.rows),
                            LAMBDA r :
                              /\ r["PWS_ACTIVITY_CODE"] = String(Text("A"))
                              /\ \/ Like(r["CITY_NAME"], search_term)
                                 \/ Like(r["COUNTY_SERVED"], search_term)
                                 \/ Like(r["ZIP_CODE_SERVED"], search_term)
                                 \/ Like(r["PWS_NAME"], search_term))
                shown == [i \in DOMAIN hits |-> [c \in SearchColumns |-> hits[i][c]]]
            IN [cols |-> SearchColumns, rows |-> OrderByPopulation(Distinct(shown))]

\* the statements the model can answer generate_sql_query with (lines 205-224 return
\* the text as it comes, less its markdown fences)
QueriedTables == {"pub_water_systems", "violations_enforcement"}

GeneratedSql ==
  [kind : {"SELECT * FROM", "DELETE FROM", "DROP TABLE"}, table : QueriedTables]

\* execute_generated_query (lines 45-52): pd.read_sql_query inside `with conn`.
\* A SELECT returns its rows.  DELETE runs in the transaction sqlite3 opens for it;
\* pandas then fails on the missing result set and the `with` block rolls back.  DROP
\* TABLE is executed outside any transaction, so it has taken effect when pandas
\* fails.  Every failure is reported and gives an empty DataFrame.
GeneratedQueryResult(sql) ==
  IF sql.kind = "SELECT * FROM" /\ tables[sql.table].exists
    THEN [cols |-> tables[sql.table].cols, rows |-> tables[sql.table].rows]
    ELSE EmptyFrame

GeneratedQueryTables(sql) ==
  IF sql.kind = "DROP TABLE" /\ tables[sql.table].exists
    THEN [tables EXCEPT ![sql.table] = NoTable]
    ELSE tables

GeneratedQueryIndexes(sql) ==
  IF sql.kind = "DROP TABLE" /\ tables[sql.table].exists
    THEN {i \in indexes : i.table # sql.table}
    ELSE indexes

SearchInputs == {"ada", "Bay", "zed"}

\* st.error of execute_query (line 42) under the statement of find_water_systems
LocationErrors ==
  IF /\ tables["pub_water_systems"].exists /\ tables["geographic_areas"].exists
     /\ PwsSearchColumns \subseteq tables["pub_water_systems"].cols
     /\ GeoSearchColumns \subseteq tables["geographic_areas"].cols
    THEN {} ELSE {"Database error"}

\* st.error of execute_generated_query (line 51)
GeneratedQueryErrors(sql) ==
  IF sql.kind = "SELECT * FROM" /\ tables[sql.table].exists THEN {}
  ELSE {"Query execution error"}

\* the search interface is on screen (lines 495-508 return before it otherwise)
SearchShown == ~Running /\ session_state.selected_system = None

SetResults(df) ==
  /\ session_state' = [session_state EXCEPT !.search_results = df]
  /\ UNCHANGED <<report, header, script, duckdb, dir, fts, views, duck, pc, pos, log, runs, edits, prev>>

\* show_system_search, button pressed with input, no low-tier client (lines 582-584)
SearchWithoutClient(search_input) ==
  /\ SearchShown
  /\ SetResults(find_water_systems(search_input))
  /\ search' = Handled(search_input, FALSE, "", "", FALSE, LocationErrors)
  /\ UNCHANGED <<tables, indexes>>

\* a plausible slip: the except branch shows the error and runs no search
SearchClassifyRaisesOnly(search_input) ==
  /\ SearchShown
  /\ search' = Handled(search_input, TRUE, "", "", TRUE, {"Error processing query"})
  /\ UNCHANGED <<session_state, report, loaderVars>>

\* ... the classification call or its processing raises (lines 578-581)
SearchClassifyRaises(search_input) ==
  /\ SearchShown
  /\ SetResults(find_water_systems(search_input))
  /\ search' = Handled(search_input, TRUE, "", "", TRUE,
                       {"Error processing query"} \cup LocationErrors)
  /\ UNCHANGED <<tables, indexes>>

\* ... query_type "location" (lines 558-563)
SearchLocation(search_input, processed_query) ==
  /\ SearchShown
  /\ SetResults(find_water_systems(IF processed_query = "" THEN search_input
                                                            ELSE processed_query))
  /\ search' = Handled(search_input, TRUE, "location", processed_query, FALSE, LocationErrors)
  /\ UNCHANGED <<tables, indexes>>

\* ... query_type "query" and generate_sql_query returns a statement (lines 564-570)
SearchQuery(search_input, sql_query) ==
  /\ SearchShown
  /\ SetResults(GeneratedQueryResult(sql_query))
  /\ search' = Handled(search_input, TRUE, "query", "", FALSE,
                       {"Generated SQL query"} \cup GeneratedQueryErrors(sql_query))
  /\ tables' = GeneratedQueryTables(sql_query)
  /\ indexes' = GeneratedQueryIndexes(sql_query)

\* ... query_type "query" and generate_sql_query returns None (lines 571-581):
\* search_results is emptied, print(query_results) then raises UnboundLocalError and
\* the except branch runs the location search
SearchQueryNoSql(search_input) ==
  /\ SearchShown
  /\ SetResults(find_water_systems(search_input))
  /\ search' = Handled(search_input, TRUE, "query", "", TRUE,
                       {"Failed to generate SQL query", "Error processing query"}
                         \cup LocationErrors)
  /\ UNCHANGED <<tables, indexes>>

\* ... any other query_type (the parser hands on whatever the reply's JSON holds,
\* lines 979-980): neither branch runs
SearchOtherType(search_input, processed_query) ==
  /\ SearchShown
  /\ search' = Handled(search_input, TRUE, "other", processed_query, FALSE, {})
  /\ UNCHANGED <<session_state, report, loaderVars>>

\* _show_search_results / _show_standard_search_results (lines 595-628): the View
\* Safety Report button of row i
SelectSystem(i) ==
  /\ SearchShown
  /\ i \in DOMAIN session_state.search_results.rows
  /\ {"PWS_NAME", "PWSID"} \subseteq session_state.search_results.cols
  /\ session_state.search_results.rows[i]["PWSID"] # String(Text("Unknown"))
  /\ session_state' =
       [session_state EXCEPT !.selected_system =
          [t |-> "system",
           pwsid |-> session_state.search_results.rows[i]["PWSID"],
           name |-> session_state.search_results.rows[i]["PWS_NAME"]]]
  /\ search' = NoSearch
  /\ UNCHANGED <<report, loaderVars>>

(***************************************************************************)
(* The safety report.  A text is a sequence of characters; a character     *)
(* outside ASCII is written by its code point.                             *)
(***************************************************************************)
\* the literals of _generate_summary (lines 385-400), cut at their fields, and of
\* _show_summary_section (lines 901-903)
Phrase ==
  "unresolved.1" :> <<"U+26A0", "U+FE0F", " ", "*", "*", "A", "T", "T", "E", "N", "T", "I", "O", "N", " ", "R", "E", "Q", "U", "I", "R", "E", "D", "*", "*", ":", " ", "T", "h", "i", "s", " ", "w", "a", "t", "e", "r", " ", "s", "y", "s", "t", "e", "m", " ", "s", "e", "r", "v", "i", "n", "g", " ">> @@
  "unresolved.2" :> <<" ", "c", "u", "r", "r", "e", "n", "t", "l", "y", " ", "h", "a", "s", " ">> @@
  "unresolved.3" :> <<" ", "a", "c", "t", "i", "v", "e", " ", "h", "e", "a", "l", "t", "h", "-", "b", "a", "s", "e", "d", " ", "v", "i", "o", "l", "a", "t", "i", "o", "n", "(", "s", ")", ".", " ", "I", "m", "m", "e", "d", "i", "a", "t", "e", " ", "a", "c", "t", "i", "o", "n", " ", "m", "a", "y", " ", "b", "e", " ", "n", "e", "e", "d", "e", "d", " ", "t", "o", " ", "e", "n", "s", "u", "r", "e", " ", "w", "a", "t", "e", "r", " ", "s", "a", "f", "e", "t", "y", ".">> @@
  "resolved.1" :> <<"U+1F4CB", " ", "T", "h", "i", "s", " ", "w", "a", "t", "e", "r", " ", "s", "y", "s", "t", "e", "m", " ", "s", "e", "r", "v", "i", "n", "g", " ">> @@
  "resolved.2" :> <<" ", "h", "a", "s", " ", "h", "a", "d", " ">> @@
  "resolved.3" :> <<" ", "h", "e", "a", "l", "t", "h", "-", "b", "a", "s", "e", "d", " ", "v", "i", "o", "l", "a", "t", "i", "o", "n", "(", "s", ")", " ", "i", "n", " ", "t", "h", "e", " ", "p", "a", "s", "t", " ", "2", " ", "y", "e", "a", "r", "s", ",", " ", "b", "u", "t", " ", "t", "h", "e", "y", " ", "a", "p", "p", "e", "a", "r", " ", "t", "o", " ", "b", "e", " ", "r", "e", "s", "o", "l", "v", "e", "d", ".", " ", "M", "o", "n", "i", "t", "o", "r", " ", "f", "o", "r", " ", "u", "p", "d", "a", "t", "e", "s", ".">> @@
  "non_health.1" :> <<"U+2705", " ", "T", "h", "i", "s", " ", "w", "a", "t", "e", "r", " ", "s", "y", "s", "t", "e", "m", " ", "s", "e", "r", "v", "i", "n", "g", " ">> @@
  "non_health.2" :> <<" ", "h", "a", "s", " ", "g", "o", "o", "d", " ", "h", "e", "a", "l", "t", "h", " ", "c", "o", "m", "p", "l", "i", "a", "n", "c", "e", " ", "b", "u", "t", " ", "h", "a", "s", " ">> @@
  "non_health.3" :> <<" ", "n", "o", "n", "-", "h", "e", "a", "l", "t", "h", " ", "m", "o", "n", "i", "t", "o", "r", "i", "n", "g", "/", "r", "e", "p", "o", "r", "t", "i", "n", "g", " ", "v", "i", "o", "l", "a", "t", "i", "o", "n", "(", "s", ")", " ", "i", "n", " ", "t", "h", "e", " ", "p", "a", "s", "t", " ", "2", " ", "y", "e", "a", "r", "s", ".">> @@
  "none.1" :> <<"U+2705", " ", "*", "*", "G", "O", "O", "D", " ", "N", "E", "W", "S", "*", "*", ":", " ", "T", "h", "i", "s", " ", "w", "a", "t", "e", "r", " ", "s", "y", "s", "t", "e", "m", " ", "s", "e", "r", "v", "i", "n", "g", " ">> @@
  "none.2" :> <<" ", "h", "a", "s", " ", "n", "o", " ", "v", "i", "o", "l", "a", "t", "i", "o", "n", "s", " ", "i", "n", " ", "t", "h", "e", " ", "p", "a", "s", "t", " ", "2", " ", "y", "e", "a", "r", "s", " ", "a", "n", "d", " ", "a", "p", "p", "e", "a", "r", "s", " ", "t", "o", " ", "b", "e", " ", "o", "p", "e", "r", "a", "t", "i", "n", "g", " ", "s", "a", "f", "e", "l", "y", ".">> @@
  "tests.1" :> <<" ", "R", "e", "c", "e", "n", "t", " ", "t", "e", "s", "t", "i", "n", "g", " ", "c", "o", "v", "e", "r", "s", " ">> @@
  "tests.2" :> <<" ", "d", "i", "f", "f", "e", "r", "e", "n", "t", " ", "c", "o", "n", "t", "a", "m", "i", "n", "a", "n", "t", "(", "s", ")", ".">> @@
  "people" :> <<" ", "p", "e", "o", "p", "l", "e">> @@
  "unknown" :> <<"u", "n", "k", "n", "o", "w", "n", " ", "n", "u", "m", "b", "e", "r", " ", "o", "f", " ", "p", "e", "o", "p", "l", "e">> @@
  "ATTENTION REQUIRED" :> <<"A", "T", "T", "E", "N", "T", "I", "O", "N", " ", "R", "E", "Q", "U", "I", "R", "E", "D">> @@
  "warning sign" :> <<"U+26A0", "U+FE0F">> @@
  "clipboard" :> <<"U+1F4CB">> @@
  "violation" :> <<"v", "i", "o", "l", "a", "t", "i", "o", "n">>

DecimalDigits == <<"0", "1", "2", "3", "4", "5", "6", "7", "8", "9">>

\* str(n), n >= 0
RECURSIVE Dec(_)
Dec(n) ==
  IF n < 10 THEN <<DecimalDigits[n + 1]>>
  ELSE Dec(n \div 10) \o <<DecimalDigits[(n % 10) + 1]>>

\* f"{n:,}", n >= 0
RECURSIVE Commas(_)
Commas(n) ==
  IF n < 1000 THEN Dec(n)
  ELSE Commas(n \div 1000) \o <<",">> \o
       <<DecimalDigits[((n % 1000) \div 100) + 1], DecimalDigits[((n % 100) \div 10) + 1],
         DecimalDigits[(n % 10) + 1]>>

\* the columns the queries of get_system_safety_data name
RecentViolationColumns ==
  {"VIOLATION_CATEGORY_CODE", "CONTAMINANT_CODE", "NON_COMPL_PER_BEGIN_DATE",
   "NON_COMPL_PER_END_DATE", "VIOLATION_STATUS", "IS_HEALTH_BASED_IND", "PWSID"}

TestResultColumns ==
  {"CONTAMINANT_CODE", "SAMPLE_MEASURE", "UNIT_OF_MEASURE", "SAMPLING_END_DATE",
   "RESULT_SIGN_CODE", "PWSID"}

\* a statement runs when its table and the columns it names exist; execute_query
\* (lines 36-43) reports any failure and returns an empty DataFrame
Runs(table, cols) == tables[table].exists /\ cols \subseteq tables[table].cols

\* get_system_safety_data (lines 338-368): the basic_info frame
basic_info(pwsid) ==
  LET p == tables["pub_water_systems"]
  IN IF ~Runs("pub_water_systems", BasicInfoColumns) THEN <<>>
     ELSE SelectSeq(p.rows, LAMBDA r : pwsid # Null /\ r["PWSID"] = pwsid)

\* the day the page runs, and date('now', '-2 years')
Today == IsoDate(2026, 1, 1)

TwoYearsAgo == IsoDate(Today.y - 2, Today.m, Today.d)

\* stored >= day, TEXT against TEXT: 'YYYY-MM-DD 00:00:00' against 'YYYY-MM-DD'.
\* NULL is never >= anything.
OnOrAfter(stored, day) ==
  /\ stored.t = "timestamp"
  /\ \/ stored.y > day.y
     \/ stored.y = day.y /\ stored.m > day.m
     \/ stored.y = day.y /\ stored.m = day.m /\ stored.d >= day.d

\* ... the recent_violations frame, the columns the report counts by (the order of
\* the rows, ORDER BY ... DESC, is not modelled)
recent_violations(pwsid) ==
  LET v == tables["violations_enforcement"]
      hits == SelectSeq(v.rows,
                        LAMBDA r : /\ pwsid # Null
                                   /\ r["PWSID"] = pwsid
                                   /\ OnOrAfter(r["NON_COMPL_PER_BEGIN_DATE"], TwoYearsAgo))
  IN IF ~Runs("violations_enforcement", RecentViolationColumns) THEN <<>>
     ELSE [i \in DOMAIN hits |->
             [c \in {"IS_HEALTH_BASED_IND", "VIOLATION_STATUS"} |-> hits[i][c]]]

\* ... the test_results frame, its CONTAMINANT_CODE column: at most 10 rows
test_results(pwsid) ==
  LET l == tables["lcr_samples"]
      hits == SelectSeq(l.rows, LAMBDA r : pwsid # Null /\ r["PWSID"] = pwsid)
  IN IF ~Runs("lcr_samples", TestResultColumns) THEN <<>>
     ELSE [i \in 1..(IF Len(hits) < 10 THEN Len(hits) ELSE 10) |-> hits[i]["CONTAMINANT_CODE"]]

get_system_safety_data(pwsid) ==
  [basic_info |-> basic_info(pwsid),
   recent_violations |-> recent_violations(pwsid),
   test_results |-> test_results(pwsid),
   failed |-> ~(/\ Runs("pub_water_systems", BasicInfoColumns)
                /\ Runs("violations_enforcement", RecentViolationColumns)
                /\ Runs("lcr_samples", TestResultColumns))]

\* violations_df['IS_HEALTH_BASED_IND'] == 'Y'
HealthBased(violations_df) ==
  SelectSeq(violations_df, LAMBDA v : v["IS_HEALTH_BASED_IND"] = String(Text("Y")))

\* ... & violations_df['VIOLATION_STATUS'].isin(['Unaddressed', 'Addressed'])
Unresolved(violations_df) ==
  SelectSeq(HealthBased(violations_df),
            LAMBDA v : v["VIOLATION_STATUS"] \in {String(Text("Unaddressed")),
                                                  String(Text("Addressed"))})

\* _generate_summary, lines 385-400: the locally computed summary
fallback_summary(population, violations_df, test_results_df) ==
  LET total_violations == Len(violations_df)
      health_violations == Len(HealthBased(violations_df))
      unresolved_health == Len(Unresolved(violations_df))
      pop_text == IF population > 0 THEN Commas(population) \o Phrase["people"]
                  ELSE Phrase["unknown"]
      text ==
        IF unresolved_health > 0
          THEN Phrase["unresolved.1"] \o pop_text \o Phrase["unresolved.2"]
                 \o Dec(unresolved_health) \o Phrase["unresolved.3"]
        ELSE IF health_violations > 0
          THEN Phrase["resolved.1"] \o pop_text \o Phrase["resolved.2"]
                 \o Dec(health_violations) \o Phrase["resolved.3"]
        ELSE IF total_violations > 0
          THEN Phrase["non_health.1"] \o pop_text \o Phrase["non_health.2"]
                 \o Dec(total_violations) \o Phrase["non_health.3"]
        ELSE Phrase["none.1"] \o pop_text \o Phrase["none.2"]
  IN IF test_results_df # <<>>
       THEN text \o Phrase["tests.1"]
              \o Dec(Cardinality({test_results_df[i] : i \in DOMAIN test_results_df}))
              \o Phrase["tests.2"]
       ELSE text

\* the chat completion of _generate_summary: the call raises, or the message it
\* returns has no content, or it has a text
Rep(c, n) == [i \in 1..n |-> c]

AiTexts ==
  {<<>>, Rep(" ", 3), Rep("x", 20), Rep("x", 21), <<" ">> \o Rep("x", 20) \o <<" ">>,
   Phrase["warning sign"] \o Rep("x", 21)}

Replies ==
  {[t |-> "raises", content |-> <<>>], [t |-> "no content", content |-> <<>>]}
    \cup {[t |-> "message", content |-> c] : c \in AiTexts}

NoReply == [t |-> "none", content |-> <<>>]

Raised == [t |-> "raised"]

Returned(text, warned) == [t |-> "returned", text |-> text, warned |-> warned]

\* _generate_summary (lines 370-478).  int() of the population is taken before the
\* try block: a NULL of the database (None, or NaN) makes it raise.
_generate_summary(safety_data, system_info, azure_client, reply) ==
  IF system_info["POPULATION_SERVED_COUNT"].t # "number" THEN Raised
  ELSE LET fallback == fallback_summary(system_info["POPULATION_SERVED_COUNT"].n,
                                        safety_data.recent_violations,
                                        safety_data.test_results)
       IN IF ~azure_client THEN Returned(fallback, FALSE)
          ELSE IF reply.t \in {"raises", "no content"}
            THEN Returned(fallback, TRUE)          \* except Exception: st.warning
          ELSE LET ai_summary == strip(reply.content, " ")
               IN IF ai_summary # <<>> /\ Len(ai_summary) > 20
                    THEN Returned(ai_summary, FALSE)
                    ELSE Returned(fallback, FALSE)

\* _show_summary_section (lines 896-906): st.error, st.warning or st.success
_show_summary_section(summary_txt) ==
  IF \/ Contains(summary_txt, Phrase["ATTENTION REQUIRED"])
     \/ Contains(summary_txt, Phrase["warning sign"])
    THEN "error"
  ELSE IF /\ Contains(summary_txt, Phrase["clipboard"])
          /\ Contains(lower(summary_txt), Phrase["violation"])
    THEN "warning"
  ELSE "success"

\* a plausible slip: only the status Unaddressed counted as unresolved
_show_safety_status_unaddressed(violations_df) ==
  IF HealthBased(violations_df) = <<>> THEN "success"
  ELSE IF \E i \in DOMAIN violations_df :
            /\ violations_df[i]["IS_HEALTH_BASED_IND"] = String(Text("Y"))
            /\ violations_df[i]["VIOLATION_STATUS"] = String(Text("Unaddressed"))
    THEN "error"
  ELSE "warning"

\* _show_safety_status (lines 731-745)
_show_safety_status(violations_df) ==
  IF HealthBased(violations_df) = <<>> THEN "success"
  ELSE IF Unresolved(violations_df) # <<>> THEN "error"
  ELSE "warning"

\* a plausible slip: the report goes on without the basic_info row
show_safety_report_unguarded(safety_data, azure_client, reply) ==
  LET given == [NoReport EXCEPT !.safety_data = safety_data, !.client = azure_client,
                                !.reply = reply,
                                !.messages = IF safety_data.failed THEN {"Database error"}
                                             ELSE {}]
  IN IF safety_data.basic_info = <<>> THEN [given EXCEPT !.status = "raised"]
     ELSE LET summary == _generate_summary(safety_data, safety_data.basic_info[1],
                                           azure_client, reply)
          IN IF summary = Raised THEN [given EXCEPT !.status = "raised"]
             ELSE [given EXCEPT
                     !.status = "shown",
                     !.summary = summary.text,
                     !.summary_level = _show_summary_section(summary.text),
                     !.safety_status = _show_safety_status(safety_data.recent_violations),
                     !.messages = @ \cup (IF summary.warned
                                            THEN {"AI summary generation failed"} ELSE {})]

\* show_safety_report (lines 692-729) over the frames of get_system_safety_data.  The
\* sections after the safety status format values that did not make the summary raise.
show_safety_report(safety_data, azure_client, reply) ==
  LET given == [NoReport EXCEPT !.safety_data = safety_data, !.client = azure_client,
                                !.reply = reply,
                                !.messages = IF safety_data.failed THEN {"Database error"}
                                             ELSE {}]
  IN IF safety_data.basic_info = <<>>
       THEN [given EXCEPT !.status = "not_found",
                          !.messages = @ \cup {"System information not found"}]
     ELSE LET summary == _generate_summary(safety_data, safety_data.basic_info[1],
                                           azure_client, reply)
          IN IF summary = Raised THEN [given EXCEPT !.status = "raised"]
             ELSE [given EXCEPT
                     !.status = "shown",
                     !.summary = summary.text,
                     !.summary_level = _show_summary_section(summary.text),
                     !.safety_status = _show_safety_status(safety_data.recent_violations),
                     !.messages = @ \cup (IF summary.warned
                                            THEN {"AI summary generation failed"} ELSE {})]

\* the reply is asked for only when a client is configured
Asked(azure_client, reply) == IF azure_client THEN reply ELSE NoReply

\* show_system_search with a system selected (lines 495-500): the report
ShowSafetyReport(azure_client, reply) ==
  /\ ~Running
  /\ session_state.selected_system # None
  /\ report' = show_safety_report(get_system_safety_data(session_state.selected_system.pwsid),
                                  azure_client, Asked(azure_client, reply))
  /\ search' = NoSearch
  /\ UNCHANGED <<session_state, loaderVars>>

\* a plausible slip: the button clears the selection and keeps the results
BackToSearchKeepingResults ==
  /\ ~Running
  /\ report.status \in {"shown", "not_found"}
  /\ session_state.selected_system # None
  /\ session_state' = [session_state EXCEPT !.selected_system = None]
  /\ report' = NoReport
  /\ search' = [NoSearch EXCEPT !.kind = "back"]
  /\ UNCHANGED loaderVars

\* the Back to Search button (lines 502-508), drawn once show_safety_report returned
BackToSearch ==
  /\ ~Running
  /\ report.status \in {"shown", "not_found"}
  /\ session_state.selected_system # None
  /\ session_state' = [selected_system |-> None, search_results |-> EmptyFrame]
  /\ report' = NoReport
  /\ search' = [NoSearch EXCEPT !.kind = "back"]
  /\ UNCHANGED loaderVars

(***************************************************************************)
(* The report over safety data of any shape: what the three queries can    *)
(* return for a system, and what the chat completion can reply.            *)
(***************************************************************************)
ReportSystems ==
  {<<>>} \cup {<<[POPULATION_SERVED_COUNT |-> p]>>
                 : p \in {Null, Number(0), Number(1), Number(1500)}}

ViolationRows ==
  [IS_HEALTH_BASED_IND : {String(Text("Y")), String(Text("N"))},
   VIOLATION_STATUS : {String(Text("Unaddressed")), String(Text("Addressed")),
                       String(Text("Resolved")), Null}]

ReportSamples ==
  {<<>>, <<String(Text("PB90"))>>,
   <<String(Text("PB90")), String(Text("CU90")), String(Text("PB90"))>>}

InitReport ==
  /\ script = "data_ingest.py"
  /\ duckdb = "mounts"
  /\ dir = [s \in Stems |-> Absent]
  /\ NewDatabase
  /\ header = NoHeader
  /\ session_state = [selected_system |-> None, search_results |-> EmptyFrame]
  /\ search = NoSearch
  /\ \E system \in ReportSystems, violations_df \in SeqsUpTo(ViolationRows, MaxViolations),
        test_results_df \in ReportSamples, azure_client \in BOOLEAN, reply \in Replies :
       report = [NoReport EXCEPT
                   !.safety_data = [basic_info |-> system,
                                    recent_violations |-> violations_df,
                                    test_results |-> test_results_df,
                                    failed |-> FALSE],
                   !.client = azure_client,
                   !.reply = Asked(azure_client, reply)]

\* show_safety_report over the drawn data
RenderReport ==
  /\ report.status = "none"
  /\ report' = show_safety_report(report.safety_data, report.client, report.reply)
  /\ UNCHANGED <<session_state, search, loaderVars>>

SpecReport == InitReport /\ [][RenderReport]_vars

AppNext ==
  \/ \E search_input \in SearchInputs : SearchWithoutClient(search_input)
  \/ \E search_input \in SearchInputs : SearchClassifyRaises(search_input)
  \/ \E search_input \in SearchInputs, processed_query \in SearchInputs \cup {""} :
       SearchLocation(search_input, processed_query)
  \/ \E search_input \in SearchInputs, sql_query \in GeneratedSql :
       SearchQuery(search_input, sql_query)
  \/ \E search_input \in SearchInputs : SearchQueryNoSql(search_input)
  \/ \E search_input \in SearchInputs, processed_query \in SearchInputs \cup {""} :
       SearchOtherType(search_input, processed_query)
  \/ \E i \in 1..MaxRows : SelectSystem(i)
  \/ \E azure_client \in BOOLEAN, reply \in Replies : ShowSafetyReport(azure_client, reply)
  \/ BackToSearch

(***************************************************************************)
(* The app over what data_ingest.py loads: water-systems and geographic-   *)
(* areas files that carry the columns the app's queries name.              *)
(***************************************************************************)
GeoStem == "SDWA_GEOGRAPHIC_AREAS"

QueryPwsCols ==
  {"SUBMISSIONYEARQUARTER", "PWSID", "PWS_NAME", "PWS_TYPE_CODE", "POPULATION_SERVED_COUNT",
   "CITY_NAME", "PWS_ACTIVITY_CODE", "PRIMARY_SOURCE_CODE", "PHONE_NUMBER"}

QueryPwsRow(k, activity) ==
  [c \in QueryPwsCols |->
     IF c \in {"PWSID", "POPULATION_SERVED_COUNT"} THEN Num(k)
     ELSE IF c = "PWS_NAME" THEN Text(IF k = 1 THEN "ada" ELSE "bay")
     ELSE IF c = "CITY_NAME" THEN Text("bay")
     ELSE IF c = "PWS_ACTIVITY_CODE" THEN Text(activity)
     ELSE IF c = "PHONE_NUMBER" THEN Null
     ELSE Text("x")]

\* a system whose PWSID field reads Unknown, one whose PWSID field is empty, and one
\* whose population is not a number
OddPwsRows ==
  {[QueryPwsRow(1, "A") EXCEPT !["PWSID"] = Text("Unknown")],
   [QueryPwsRow(1, "A") EXCEPT !["PWSID"] = Null],
   [QueryPwsRow(1, "A") EXCEPT !["POPULATION_SERVED_COUNT"] = Text("x")]}

QueryPwsContents ==
  {Absent, Blank}
    \cup {Csv(QueryPwsCols, <<r>>) : r \in OddPwsRows}
    \cup UNION {{Csv(QueryPwsCols, [i \in 1..k |-> QueryPwsRow(i, a[i])])
                  : a \in [1..k -> {"A", "I"}]}
                : k \in 0..MaxRows}

QueryGeoCols == {"SUBMISSIONYEARQUARTER", "GEO_ID", "PWSID", "COUNTY_SERVED", "ZIP_CODE_SERVED"}

QueryGeoContents ==
  {Absent,
   Csv(QueryGeoCols,
       << [c \in QueryGeoCols |->
             IF c \in {"GEO_ID", "PWSID"} THEN Num(1)
             ELSE IF c = "COUNTY_SERVED" THEN Text("ada")
             ELSE IF c = "ZIP_CODE_SERVED" THEN Null
             ELSE Text("2025Q1")] >>)}

LcrStem == "SDWA_LCR_Samples"

\* a violations file with the columns the report reads: one unresolved health-based
\* violation of system 1, begun within the last two years
QueryViolContent ==
  Csv(GenericCols(ViolStem) \cup RecentViolationColumns,
      << [c \in GenericCols(ViolStem) \cup RecentViolationColumns |->
            IF c = "NON_COMPL_PER_BEGIN_DATE" THEN Ymd(Today.y - 1, 1, 1)
            ELSE IF c = "NON_COMPL_PER_END_DATE" THEN Null
            ELSE IF c = "VIOLATION_STATUS" THEN Text("Unaddressed")
            ELSE IF c = "IS_HEALTH_BASED_IND" THEN Text("Y")
            ELSE IF c = "VIOLATION_CATEGORY_CODE" THEN Text("MCL")
            ELSE Num(1)] >>)

\* a samples file with the columns the report reads: one sample of system 1
QueryLcrContent ==
  Csv(GenericCols(LcrStem) \cup TestResultColumns,
      << [c \in GenericCols(LcrStem) \cup TestResultColumns |->
            IF c = "SAMPLING_END_DATE" THEN Ymd(Today.y - 1, 1, 1)
            ELSE IF c = "RESULT_SIGN_CODE" THEN Null
            ELSE IF c = "UNIT_OF_MEASURE" THEN Text("mg/L")
            ELSE IF c \in {"CONTAMINANT_CODE", "SUBMISSIONYEARQUARTER"} THEN Text("PB90")
            ELSE Num(1)] >>)

InitQuery ==
  /\ script = "data_ingest.py"
  /\ duckdb = "mounts"
  /\ \E p \in QueryPwsContents, g \in QueryGeoContents, others \in BOOLEAN :
       dir = [s \in Stems |->
                IF s = PwsStem THEN p
                ELSE IF s = GeoStem THEN g
                ELSE IF others /\ s = ViolStem THEN QueryViolContent
                ELSE IF others /\ s = LcrStem THEN QueryLcrContent
                ELSE IF others /\ s \in KnownStems THEN GenericContent(s) ELSE Absent]
  /\ NewDatabase
  /\ header = NoHeader
  /\ NewSession

NextQuery ==
  \/ StartRun
  \/ PandasNext
  \/ AppNext

SpecQuery == InitQuery /\ [][NextQuery]_vars

(***************************************************************************)
(* Vocabulary of the properties.                                           *)
(***************************************************************************)
\* the run has ended and data/ is as the run read it
Ended == pc \in {"done", "aborted"} /\ ~prev.dirty

\* data/ is as the current run read it
AsRead == ~prev.dirty

Pandas == script = "data_ingest.py"

MappedTable(stem) == file_mappings[CHOOSE i \in DOMAIN file_mappings : file_mappings[i][1] = stem][2]

\* the files a script looks at, and the table it loads each into
LoaderStems == IF Pandas THEN KnownStems ELSE Stems

TableFor(stem) == IF Pandas THEN MappedTable(stem) ELSE ViewOf(stem)

\* the dataframe the script derives from the file as it is now
Frame(stem) == IF Pandas THEN PandasFrame(dir[stem]) ELSE DuckFrame(dir[stem])

\* the table a load of the file into an empty database gives
FreshLoad(stem) ==
  IF Pandas THEN to_sql(Frame(stem)) ELSE insert_all(NoTable, Frame(stem), KeyOf(ViewOf(stem)))

LoadedNow(t) == <<"loaded", t>> \in log

Written(t) == <<"written", t>> \in log

Count(rows, r) == Cardinality({i \in DOMAIN rows : rows[i] = r})

SameRows(a, b) ==
  /\ Len(a) = Len(b)
  /\ \A i \in DOMAIN a : Count(a, a[i]) = Count(b, a[i])

GoodFile(stem) == dir[stem].kind = "csv" /\ dir[stem].rows # <<>>

UpperKeys == [t \in DOMAIN KEY_MAP |-> [i \in DOMAIN KEY_MAP[t] |-> UpperStr(KEY_MAP[t][i])]]

\* the declared primary key, under the column names the script gives the table
DeclaredKey(t) == IF Pandas THEN UpperKeys[t] ELSE KEY_MAP[t]

SystemIdColumn == IF Pandas THEN "PWSID" ELSE "pwsid"

\* SELECT * FROM name, name a table or a compatibility view
Select(name) ==
  LET target == IF name \in LegacyViews THEN views[name] ELSE name
  IN IF target \in TableNames /\ tables[target].exists
       THEN [ok |-> TRUE, rows |-> tables[target].rows]
       ELSE [ok |-> FALSE, rows |-> <<>>]

(***************************************************************************)
(* C1.  An error raised while loading one file is contained to that file:  *)
(* it is logged, the run does not abort, and every readable file of the    *)
(* directory is loaded by the time the run ends.                           *)
(***************************************************************************)
ErrorRaised == pc = "aborted" \/ \E s \in Stems : <<"error", s>> \in log

C1_ErrorContained ==
  (Ended /\ ErrorRaised) =>
    /\ pc = "done"
    /\ \A s \in LoaderStems : dir[s].kind = "blank" => <<"error", s>> \in log
    /\ \A s \in LoaderStems : GoodFile(s) => LoadedNow(TableFor(s))

(***************************************************************************)
(* C2.  With exactly one expected file missing from the directory, the run *)
(* (here the first run, over a new database) completes all its steps,      *)
(* creates no table for the missing file, and loads every other table from *)
(* its file.                                                               *)
(***************************************************************************)
MissingOnly(m) ==
  /\ dir[m].kind = "absent"
  /\ \A s \in KnownStems \ {m} : GoodFile(s)

C2_MissingFileTolerated ==
  \A m \in KnownStems :
    (Ended /\ runs = 1 /\ MissingOnly(m)) =>
      /\ pc = "done"
      /\ tables[TableFor(m)] = prev.tables[TableFor(m)]
      /\ \A s \in KnownStems \ {m} :
           /\ LoadedNow(TableFor(s))
           /\ \A i \in DOMAIN FreshLoad(s).rows :
                Count(tables[TableFor(s)].rows, FreshLoad(s).rows[i]) > 0

(***************************************************************************)
(* C3.  A table a run has written from one of the expected files holds     *)
(* exactly the rows derived from the current source file: no row of an     *)
(* earlier run survives.                                                   *)
(***************************************************************************)
C3_WholeTableReplaced ==
  \A s \in KnownStems :
    (AsRead /\ Written(TableFor(s))) =>
      SameRows(tables[TableFor(s)].rows, FreshLoad(s).rows)

(***************************************************************************)
(* C4.  A second run over the unchanged directory leaves every table with  *)
(* the rows the first run left.                                            *)
(***************************************************************************)
C4_RerunIdempotent ==
  (Ended /\ runs >= 2 /\ prev.same) =>
    \A t \in TableNames :
      /\ tables[t].exists = prev.tables[t].exists
      /\ SameRows(tables[t].rows, prev.tables[t].rows)

(***************************************************************************)
(* C5.  A loaded table holds one row per declared primary key, and for     *)
(* every key of the file it is the last row of the file with that key.     *)
(***************************************************************************)
C5_LastWriteWins ==
  \A s \in KnownStems :
    (AsRead /\ LoadedNow(TableFor(s))) =>
      LET key == DeclaredKey(ViewOf(s))
          rows == tables[TableFor(s)].rows
          derived == Frame(s).rows
      IN /\ \A i, j \in DOMAIN rows : KeyVal(rows[i], key) = KeyVal(rows[j], key) => i = j
         /\ \A i \in DOMAIN derived :
              (\A j \in DOMAIN derived : j > i => KeyVal(derived[j], key) # KeyVal(derived[i], key))
                => Count(rows, derived[i]) = 1

(***************************************************************************)
(* C6.  No step of the query layer changes the contents or the schema of   *)
(* the database: across every step taken while no loader run is in         *)
(* progress, tables and indexes stay as they were.                         *)
(***************************************************************************)
C6_QueryLayerReadOnly ==
  [][(~Running /\ pc' = pc) => (tables' = tables /\ indexes' = indexes)]_vars

(***************************************************************************)
(* C7.  When a run of ingest_data.py has completed, both legacy views      *)
(* exist, water_systems returns what pub_water_systems returns and         *)
(* violations returns what violations_enforcement returns.                 *)
(***************************************************************************)
C7_ViewsMatchTables ==
  (script = "ingest_data.py" /\ pc = "done") =>
    /\ \A v \in LegacyViews : views[v] # ""
    /\ Select("water_systems") = Select("pub_water_systems")
    /\ Select("violations") = Select("violations_enforcement")

\* a re-run over an existing, populated database has completed
C7_Witness ==
  /\ script = "ingest_data.py" /\ pc = "done" /\ runs = 2
  /\ tables["pub_water_systems"].rows # <<>>
  /\ Select("water_systems").ok

(***************************************************************************)
(* C8.  Every stored value of a column the loader treats as a date column  *)
(* is a valid calendar date or null, and a water-systems file with         *)
(* unparseable dates raises no error: the first run writes its table with  *)
(* one row per row of the file.                                            *)
(***************************************************************************)
TreatedAsDate(c) == IF Pandas THEN IsDateColumn(c) ELSE DATE_COL_RE(c)

ValidStoredDate(cell) ==
  \/ cell = Null
  \/ /\ cell.t \in {"timestamp", "iso"}
     /\ ValidDate(cell.y, cell.m, cell.d)

C9_MalformedCountsNull ==
  (AsRead /\ runs = 1 /\ Written(TableFor(PwsStem))) =>
    /\ Len(tables[TableFor(PwsStem)].rows) = Len(dir[PwsStem].rows)
    /\ \A i \in DOMAIN tables[TableFor(PwsStem)].rows :
         \A c \in DOMAIN tables[TableFor(PwsStem)].rows[i] :
           IsNumericColumn(c) => tables[TableFor(PwsStem)].rows[i][c].t \in {"number", "null"}

(***************************************************************************)
(* C10.  Every row of the violations file whose key is unique in the file  *)
(* is in the violations table once the table is written, whether or not    *)
(* its system id is in the water-systems table.                            *)
(***************************************************************************)
C10_UnmatchedRowsKept ==
  (AsRead /\ Written(TableFor(ViolStem))) =>
    LET key == DeclaredKey("violations_enforcement")
        derived == Frame(ViolStem).rows
    IN \A i \in DOMAIN derived :
         (\A j \in DOMAIN derived : j # i => KeyVal(derived[j], key) # KeyVal(derived[i], key))
           => Count(tables[TableFor(ViolStem)].rows, derived[i]) = 1

\* a violations row is loaded whose system id no water-systems row has
C10_Witness ==
  /\ LoadedNow(TableFor(ViolStem))
  /\ tables["pub_water_systems"].rows # <<>>
  /\ \E i \in DOMAIN tables["violations_enforcement"].rows :
       \A j \in DOMAIN tables["pub_water_systems"].rows :
         tables["pub_water_systems"].rows[j][SystemIdColumn]
           # tables["violations_enforcement"].rows[i][SystemIdColumn]


(***************************************************************************)
(* C11.  The steps of a run are ordered: a step that writes a table from   *)
(* its source file is never taken after an index was created in the same   *)
(* run, the full-text index is built by the step that follows the last     *)
(* table load, and the step that creates the compatibility views ends the  *)
(* run.                                                                    *)
(***************************************************************************)
IndexCreated == \E e \in log : e[1] = "index"

NewlyWritten == \E t \in TableNames : <<"written", t>> \in log' /\ <<"written", t>> \notin log

C11_StepsOrdered ==
  [][/\ NewlyWritten => ~IndexCreated
     /\ fts' # fts => (pc = "fts" /\ pc' = "views")
     /\ views' # views => (pc = "views" /\ pc' = "done")]_vars


(***************************************************************************)
(* C12.  When a run that loaded both the water-systems file and the        *)
(* violations file has completed, the water-systems table and the          *)
(* violations table each have an index that covers the system-id column.   *)
(***************************************************************************)
IndexedOn(t, col) == \E i \in indexes : i.table = t /\ col \in SetOf(i.cols)

C12_SystemIdIndexed ==
  (pc = "done" /\ AsRead /\ LoadedNow(TableFor(PwsStem)) /\ LoadedNow(TableFor(ViolStem))) =>
    /\ IndexedOn(TableFor(PwsStem), SystemIdColumn)
    /\ IndexedOn(TableFor(ViolStem), SystemIdColumn)


(***************************************************************************)
(* ingest_data.py over a database file that an earlier completed run of    *)
(* it left behind: that run found the water-systems file alone in data/    *)
(* and loaded it.  The directory has changed since.                        *)
(***************************************************************************)
LoadedOnce(p) ==
  LET first == insert_all(NoTable, DuckFrame(p), KeyOf("pub_water_systems"))
  IN /\ tables = [t \in TableNames |-> IF t = "pub_water_systems" THEN first ELSE NoTable]
     /\ indexes = {[name |-> IndexName("pub_water_systems", KeyOf("pub_water_systems")),
                    table |-> "pub_water_systems", cols |-> KeyOf("pub_water_systems")]}
     /\ fts = [exists |-> TRUE, docs |-> FtsDocs(first)]
     /\ views = compat_views
     /\ prev = [tables |-> tables, same |-> FALSE, dirty |-> FALSE]

InitReload ==
  /\ script = "ingest_data.py"
  /\ duckdb \in {"rejects", "mounts"}
  /\ \E p \in FreeContents(PwsStem), a \in FreeContents(ArchiveStem) :
       dir = DirOf(p, Absent, a, FALSE)
  /\ \/ NewDatabase
     \/ /\ \E p \in {c \in FreeContents(PwsStem) : c.rows # <<>>} : LoadedOnce(p)
        /\ duck = {}
        /\ pc = "idle"
        /\ pos = 0
        /\ log = {}
        /\ runs = 0
        /\ edits = 0
  /\ header = NoHeader
  /\ NewSession

NextReload ==
  \/ \E c \in FreeContents(PwsStem) : EditFile(PwsStem, c)
  \/ StartRun
  \/ MountRejects
  \/ MountViews
  \/ CopyTable
  \/ CopyIndexRaises
  \/ EnableFts
  \/ EnableFtsRaises
  \/ CreateViews

SpecReload == InitReload /\ [][NextReload]_vars

(***************************************************************************)
(* C13.  After every completed run of ingest_data.py, a first run or a     *)
(* re-run over changed water-systems data, a full-text search for a word   *)
(* returns exactly the rows of the current pub_water_systems table whose   *)
(* system name contains the word: the index is never stale.                *)
(***************************************************************************)
\* case folding of the default tokenizer
Folded == [n \in SystemNames \cup SearchInputs |-> Str(lower(Spell[n]))]

\* the tokens of a stored cell; the system names of the model are single words
Tokens(cell) == IF cell.t = "str" /\ cell.of.t = "text" THEN {Folded[cell.of.s]} ELSE {}

\* the rows of pub_water_systems whose rowid the index lists under the word:
\*   SELECT t.rowid, t.* FROM pub_water_systems t
\*     JOIN pub_water_systems_fts f ON t.rowid = f.rowid WHERE f MATCH :word
FtsSearch(word) ==
  LET t == tables["pub_water_systems"]
      hits == {fts.docs[j].rowid : j \in {k \in DOMAIN fts.docs :
                                             Folded[word] \in Tokens(fts.docs[k].pws_name)}}
  IN {<<t.ids[i], t.rows[i]>> : i \in {k \in DOMAIN t.rows : t.ids[k] \in hits}}

\* the rows of pub_water_systems whose name holds the word now
NameHolds(word) ==
  LET t == tables["pub_water_systems"]
  IN {<<t.ids[i], t.rows[i]>> :
        i \in {k \in DOMAIN t.rows : Folded[word] \in Tokens(t.rows[k]["pws_name"])}}

C13_FtsNeverStale ==
  (pc = "done" /\ ~Pandas) => \A w \in SearchInputs : FtsSearch(w) = NameHolds(w)


(***************************************************************************)
(* slug on its own: a header of up to MaxLen characters, normalised and    *)
(* normalised again.                                                       *)
(***************************************************************************)
MaxLen == 4      \* characters in a header
MaxPasses == 2   \* applications of slug to one header

\* a lower-case letter, an upper-case letter, a digit, the separator itself and two
\* other characters
HeaderChars == {"a", "B", "7", "_", "-", " "}

InitSlug ==
  /\ script = "ingest_data.py"
  /\ duckdb = "mounts"
  /\ dir = DirOf(Absent, Absent, Absent, FALSE)
  /\ NewDatabase
  /\ \E s \in SeqsUpTo(HeaderChars, MaxLen) : header = [raw |-> s, name |-> s, passes |-> 0]
  /\ NewSession

\* name = slug(name)
SlugHeader ==
  /\ header.passes < MaxPasses
  /\ header' = [header EXCEPT !.name = slug(header.name), !.passes = @ + 1]
  /\ UNCHANGED <<session_state, report, search, script, duckdb, dir, tables, indexes, fts, views, duck, pc, pos, log, runs, edits, prev>>

SpecSlug == InitSlug /\ [][SlugHeader]_vars

(***************************************************************************)
(* C14.  Normalising a header is idempotent: slug(slug(s)) = slug(s) for   *)
(* every string s.                                                         *)
(***************************************************************************)
C14_SlugIdempotent == header.passes >= 1 => slug(header.name) = header.name

\* a header that was no slug has been normalised twice
C14_Witness ==
  /\ header.passes = 2
  /\ header.raw = <<"-", "B", " ", "_">>
  /\ header.name = <<"b">>

(***************************************************************************)
(* C15.  slug returns a string made only of lower-case ASCII letters,      *)
(* digits and underscores, without two adjacent underscores and without a  *)
(* leading or trailing underscore; each maximal run of other characters    *)
(* inside the name has become exactly one underscore, that is, the result  *)
(* is the runs of letters and digits of the lower-cased header, in order,  *)
(* joined by single underscores.                                           *)
(***************************************************************************)
\* the length of the longest prefix of s made of letters and digits
RECURSIVE WordLen(_)
WordLen(s) == IF s = <<>> \/ Head(s) \notin SlugClass THEN 0 ELSE 1 + WordLen(Tail(s))

\* the maximal runs of letters and digits of s, in order
RECURSIVE Words(_)
Words(s) ==
  IF s = <<>> THEN <<>>
  ELSE IF Head(s) \notin SlugClass THEN Words(Tail(s))
  ELSE <<SubSeq(s, 1, WordLen(s))>> \o Words(SubSeq(s, WordLen(s) + 1, Len(s)))

RECURSIVE Joined(_)
Joined(ws) ==
  IF ws = <<>> THEN <<>>
  ELSE IF Len(ws) = 1 THEN ws[1]
  ELSE ws[1] \o <<"_">> \o Joined(Tail(ws))

C15_SlugShape ==
  header.passes >= 1 =>
    /\ \A i \in DOMAIN header.name : header.name[i] \in SlugClass \cup {"_"}
    /\ \A i \in 1..(Len(header.name) - 1) : ~(header.name[i] = "_" /\ header.name[i + 1] = "_")
    /\ header.name # <<>> => (header.name[1] # "_" /\ header.name[Len(header.name)] # "_")
    /\ header.name = Joined(Words(lower(header.raw)))

\* a header with a run of two other characters inside has been normalised
C15_Witness ==
  /\ header.passes = 1
  /\ header.raw = <<"B", "-", " ", "a">>
  /\ header.name = <<"b", "_", "a">>

(***************************************************************************)
(* C16.  The table names ingest_data.py derives from the eleven known file *)
(* names (the SDWA_ prefix removed, then slug) are pairwise distinct, and  *)
(* each is a key of KEY_MAP and the table name data_ingest.py maps the     *)
(* same file to: whichever script runs, the table it loads a known file   *)
(* into has that one name.                                                 *)
(***************************************************************************)
\* the table names of data_ingest.py, by file
MappedNames == [s \in KnownStems |-> MappedTable(s)]

\* the table the running script loads a known file into
LoadsInto(s) == IF Pandas THEN MappedNames[s] ELSE Views[s]

C16_KnownNamesDistinct ==
  /\ Cardinality(KnownStems) = 11
  /\ \A s, t \in KnownStems : s # t => LoadsInto(s) # LoadsInto(t)
  /\ \A s \in KnownStems :
       /\ LoadsInto(s) = Views[s]
       /\ LoadsInto(s) = MappedNames[s]
       /\ LoadsInto(s) \in DOMAIN KEY_MAP

\* a run of ingest_data.py has mounted the eleven files and loaded a table from each
C16_Witness ==
  /\ ~Pandas
  /\ pc = "done"
  /\ KnownStems \subseteq duck
  /\ \A s \in KnownStems : tables[ViewOf(s)].exists /\ LoadedNow(ViewOf(s))

(***************************************************************************)
(* C17.  A column is date-coerced if and only if its name matches the      *)
(* date pattern (_date or _dt, as a suffix or followed by an underscore),  *)
(* and the values of every column that does not match are written to the   *)
(* table as they were read, unchanged by the coercion pass.                *)
(***************************************************************************)
\* the header of the file a stored column comes from
RawHeader(stem, c) == IF Pandas THEN c ELSE CHOOSE h \in dir[stem].cols : SlugStr(h) = c

C17_OnlyDateColumnsCoerced ==
  (AsRead /\ runs = 1 /\ Written(TableFor(PwsStem))
     /\ Len(tables[TableFor(PwsStem)].rows) = Len(dir[PwsStem].rows)) =>
    \A i \in DOMAIN tables[TableFor(PwsStem)].rows :
      \A c \in DOMAIN tables[TableFor(PwsStem)].rows[i] :
        /\ TreatedAsDate(c) <=> DATE_COL_RE(c)
        /\ ~DATE_COL_RE(c) =>
             tables[TableFor(PwsStem)].rows[i][c] =
               Inferred(dir[PwsStem].rows, RawHeader(PwsStem, c),
                        dir[PwsStem].rows[i][RawHeader(PwsStem, c)])

(***************************************************************************)
(* The loaders over water-systems files whose columns come in any order,   *)
(* with or without a second name column, "PWS Name".                       *)
(***************************************************************************)
MaxOrderRows == 1

\* the arrangements of the columns S in a header line
Orderings(S) == {q \in [1..Cardinality(S) -> S] : \A i, j \in DOMAIN q : q[i] = q[j] => i = j}

OrderHeaders == Orderings(PwsCols) \cup Orderings(PwsCols \cup {"PWS Name"})

OrderRow(k, cols, names) ==
  [c \in cols |->
     IF c = "PWSID" THEN Num(k)
     ELSE IF c = "PWS_NAME" THEN Text(names[1])
     ELSE IF c = "PWS Name" THEN Text(names[2])
     ELSE Text("2025Q1")]

OrderContents ==
  {Absent, Blank}
    \cup UNION {{CsvIn(h, [i \in 1..k |-> OrderRow(i, SetOf(h), x[i])])
                  : x \in [1..k -> SystemNames \X SystemNames]}
                : h \in OrderHeaders, k \in 0..MaxOrderRows}

InitColumns ==
  /\ script \in Scripts
  /\ duckdb \in (IF script = "ingest_data.py" THEN {"rejects", "mounts"} ELSE {"mounts"})
  /\ \E p \in OrderContents, others \in BOOLEAN : dir = DirOf(p, Absent, Absent, others)
  /\ NewDatabase
  /\ header = NoHeader
  /\ NewSession

SpecColumns == InitColumns /\ [][RunNext]_vars

(***************************************************************************)
(* C18.  The loaded table depends on the column names only, not on the     *)
(* order or number of the columns: the table a file was loaded into has    *)
(* the rows (the same value under each column name) that loading the same  *)
(* file with its columns in any other order gives.                         *)
(***************************************************************************)
\* the same file, its columns arranged as q says
Permuted(content, q) == [content EXCEPT !.header = [i \in DOMAIN q |-> content.header[q[i]]]]

\* the table a load of the content into an empty database gives
LoadOf(stem, content) ==
  IF Pandas THEN to_sql(PandasFrame(content))
  ELSE insert_all(NoTable, DuckFrame(content), KeyOf(ViewOf(stem)))

C18_ColumnOrderFree ==
  (AsRead /\ runs = 1 /\ Written(TableFor(PwsStem))) =>
    \A q \in Orderings(DOMAIN dir[PwsStem].header) :
      tables[TableFor(PwsStem)].rows = LoadOf(PwsStem, Permuted(dir[PwsStem], q)).rows

(***************************************************************************)
(* C19.  In a handled search, when the low-tier client is not configured   *)
(* or when classifying or processing the query raises, search_results is   *)
(* set to find_water_systems of the original search input.                 *)
(***************************************************************************)
\* a step in which the page handles a search
SearchStep == ~Running /\ ~Running' /\ search'.kind = "search"

C19_FallbackToLocationSearch ==
  [][(SearchStep /\ (~search'.client \/ search'.raised)) =>
       session_state'.search_results = find_water_systems(search'.input)]_vars

\* the classification raised over a loaded database and the fallback found a system
C19_Witness ==
  /\ search.kind = "search"
  /\ search.client /\ search.raised /\ search.query_type = ""
  /\ search.input = "Bay"
  /\ session_state.search_results = find_water_systems("Bay")
  /\ session_state.search_results.rows # <<>>

(***************************************************************************)
(* C20.  In a handled search classified as "query", when generate_sql_query*)
(* returns None the handler reports that SQL generation failed and the     *)
(* search ends with search_results an empty DataFrame: no location search  *)
(* is run for that input.                                                  *)
(***************************************************************************)
C20_NoSqlEndsEmpty ==
  [][(SearchStep /\ search'.query_type = "query"
        /\ "Failed to generate SQL query" \in search'.messages) =>
       session_state'.search_results = EmptyFrame]_vars

(***************************************************************************)
(* C21.  After every handled search, whatever query_type the classifier    *)
(* returned, search_results holds a result computed from that search's     *)
(* input: the location search for the input or for the term the classifier *)
(* made of it, the result of a statement generated for it, or the empty    *)
(* frame of a failure.  It is never what an earlier search left.           *)
(***************************************************************************)
\* what a search with this input and this classification can compute
ComputedFor(s) ==
  {find_water_systems(s.input), EmptyFrame}
    \cup (IF s.term = "" THEN {} ELSE {find_water_systems(s.term)})
    \cup {GeneratedQueryResult(q) : q \in GeneratedSql}

C21_ResultsOfThisSearch ==
  [][SearchStep => session_state'.search_results \in ComputedFor(search')]_vars

(***************************************************************************)
(* C22.  While a system is selected the page renders its safety report and *)
(* handles no search; a system is selected only by the View Safety Report  *)
(* button of a result row whose PWSID is not 'Unknown'; Back to Search     *)
(* clears the selection and empties the results, and the search interface  *)
(* is shown again.                                                         *)
(***************************************************************************)
C22_ReportThenBack ==
  [][/\ session_state.selected_system # None =>
          /\ search'.kind # "search"
          /\ \/ session_state' = session_state
             \/ /\ search'.kind = "back"
                /\ session_state' = [selected_system |-> None, search_results |-> EmptyFrame]
                /\ SearchShown'
     /\ (session_state.selected_system = None /\ session_state'.selected_system # None) =>
          /\ {"PWS_NAME", "PWSID"} \subseteq session_state.search_results.cols
          /\ \E i \in DOMAIN session_state.search_results.rows :
               LET system == session_state.search_results.rows[i]
               IN /\ system["PWSID"] # String(Text("Unknown"))
                  /\ session_state'.selected_system =
                       [t |-> "system", pwsid |-> system["PWSID"],
                        name |-> system["PWS_NAME"]]
                  /\ session_state'.search_results = session_state.search_results]_vars

\* Back to Search was pressed under a rendered report
C22_Witness ==
  /\ search.kind = "back"
  /\ session_state = [selected_system |-> None, search_results |-> EmptyFrame]
  /\ report = NoReport

(***************************************************************************)
(* C23.  show_safety_report completes without raising for every system the *)
(* loader can put in the database, a system whose POPULATION_SERVED_COUNT  *)
(* the loader coerced to null included, with or without an AI client.      *)
(***************************************************************************)
C23_ReportNeverRaises == report.status # "raised"

(***************************************************************************)
(* C24.  execute_query and execute_generated_query never raise: a database *)
(* error is reported and gives an empty DataFrame, to a search and to a    *)
(* report alike.  When the basic_info query of a report returns no row,    *)
(* show_safety_report shows the not-found guidance and stops: no summary   *)
(* is generated and no other section is shown.                             *)
(***************************************************************************)
\* the step rendered a report
ReportStep == report'.status # "none" /\ report' # report

C24_ErrorsGiveEmptyFrames ==
  [][/\ (/\ SearchStep
         /\ ~search'.client \/ search'.raised \/ search'.query_type = "location"
         /\ LocationErrors # {})
          => /\ session_state'.search_results = EmptyFrame
             /\ "Database error" \in search'.messages
     /\ (SearchStep /\ "Query execution error" \in search'.messages)
          => session_state'.search_results = EmptyFrame
     /\ ReportStep
          => /\ report'.safety_data = get_system_safety_data(session_state.selected_system.pwsid)
             /\ report'.safety_data.failed => "Database error" \in report'.messages
             /\ report'.safety_data.basic_info = <<>>
                  => /\ report'.status = "not_found"
                     /\ "System information not found" \in report'.messages
                     /\ report'.summary = <<>>
                     /\ report'.summary_level = "" /\ report'.safety_status = ""]_vars

\* a report that found no row of the system, two of its queries having failed
C24_Witness ==
  /\ report.status = "not_found"
  /\ report.safety_data.failed
  /\ "Database error" \in report.messages

(***************************************************************************)
(* C25.  _generate_summary returns the AI-generated text only when a       *)
(* client is configured, the call succeeds and the text (stripped, as it   *)
(* is returned) is longer than 20 characters; in every other case it       *)
(* returns the locally computed fallback summary.                          *)
(***************************************************************************)
\* the report found the system and so called _generate_summary
SummaryAsked == report.status \notin {"none", "not_found"}

AiTextUsable ==
  /\ report.client
  /\ report.reply.t = "message"
  /\ Len(strip(report.reply.content, " ")) > 20

FallbackOfReport ==
  fallback_summary(report.safety_data.basic_info[1]["POPULATION_SERVED_COUNT"].n,
                   report.safety_data.recent_violations, report.safety_data.test_results)

C25_AiTextOrFallback ==
  SummaryAsked =>
    /\ report.status = "shown"
    /\ report.summary = IF AiTextUsable THEN strip(report.reply.content, " ")
                        ELSE FallbackOfReport

(***************************************************************************)
(* C26.  For every set of recent violations the level at which the         *)
(* fallback summary is displayed equals the level of the safety status:    *)
(* error exactly when a health-based violation with status Unaddressed or  *)
(* Addressed exists, warning exactly when health-based violations exist    *)
(* and none is unresolved, success otherwise.                              *)
(***************************************************************************)
FallbackShown == report.status = "shown" /\ report.summary = FallbackOfReport

LevelOf(violations_df) ==
  LET health == {i \in DOMAIN violations_df :
                   violations_df[i]["IS_HEALTH_BASED_IND"] = String(Text("Y"))}
      open == {i \in health :
                 violations_df[i]["VIOLATION_STATUS"]
                   \in {String(Text("Unaddressed")), String(Text("Addressed"))}}
  IN IF open # {} THEN "error" ELSE IF health # {} THEN "warning" ELSE "success"

C26_SummaryLevelIsStatusLevel ==
  FallbackShown =>
    /\ report.summary_level = report.safety_status
    /\ report.safety_status = LevelOf(report.safety_data.recent_violations)

\* a fallback summary of resolved health-based violations, shown as a warning beside
\* non-health ones
C26_Witness ==
  /\ FallbackShown
  /\ report.summary_level = "warning"
  /\ \E i \in DOMAIN report.safety_data.recent_violations :
       report.safety_data.recent_violations[i]["IS_HEALTH_BASED_IND"] = String(Text("N"))

=============================================================================
